---- MODULE Spec2Model ----
(***************************************************************************)
(* Vanta: the autonomous agent execution pipeline.                         *)
(*                                                                         *)
(*   - the task history ledger (TaskHistoryService.createTask/updateTask), *)
(*   - the agent creation route (POST /api/agents) and its setup record,   *)
(*   - the orchestrator executeAgent with its failure handler,             *)
(*   - the swap executor executeTokenSwap with its finality poll,          *)
(*   - the execute route (POST /api/agents/[id]/execute).                  *)
(*                                                                         *)
(* Every await of the source is one step.  A collaborator that can reject  *)
(* (database, RPC, key decryption) either answers or throws one of the     *)
(* values of Fail(who).  Times are abstracted to "now" / "given" / Null.   *)
(***************************************************************************)
EXTENDS Integers, Sequences, FiniteSets, TLC

\* ------------------------------------------------------------------ values

Null == "null"
Undefined == "undefined"

\* Number of task records the ledger-only specification SpecLedger creates.
MaxTasks == 2

\* const maxAttempts = 30 in the finality poll of executeTokenSwap.
maxAttempts == 30

Statuses == {"pending", "running", "completed", "failed"}
Terminal == {"completed", "failed"}

\* Variant of StageTypes: the first two stages log each other's type.
StageTypes_swapped == <<"fetch_tokens", "plan_tasks", "predict_token", "execute_swap">>

\* The hard-coded stages of executeAgent, in source order.
StageTypes == <<"plan_tasks", "fetch_tokens", "predict_token", "execute_swap">>

\* What a stage writes as taskOutput when it completes.
StageOutputs == <<"tasks", "tokens", "prediction", "swapResult">>

NoError == [isError |-> TRUE, message |-> "<none>"]

\* The values a failing collaborator `who` can throw: an Error carrying a
\* message, or a value that is not an Error.
Fail(who) ==
    { [isError |-> TRUE, message |-> who \o " failed"],
      [isError |-> FALSE, message |-> who \o " threw a non-Error"] }

\* `error instanceof Error ? error.message : 'Unknown error'`
ErrMsg(e) == IF e.isError THEN e.message ELSE "Unknown error"

\* `x || null` on an optional string.
OrNull(x) == IF x = Undefined \/ x = "" THEN Null ELSE x

\* ------------------------------------------------------------------ ledger

\* The row TaskHistoryService.createTask inserts.
NewTask(taskType) ==
    [ taskType |-> taskType,
      status |-> "pending",
      taskOutput |-> Null,
      errorMessage |-> Null,
      completedAt |-> Null ]

\* Variant of CompletedAtOf: only 'completed' stamps completedAt.
CompletedAtOf_completedOnly(data) ==
    IF data.completedAt # Undefined
    THEN data.completedAt
    ELSE IF data.status = "completed" THEN "now" ELSE Null

\* The completedAt that TaskHistoryService.updateTask writes.
CompletedAtOf(data) ==
    IF data.completedAt # Undefined
    THEN data.completedAt
    ELSE IF data.status \in Terminal THEN "now" ELSE Null

\* The row after TaskHistoryService.updateTask(taskId, data).
UpdatedTask(task, data) ==
    [ task EXCEPT
        !.status = data.status,
        !.taskOutput = OrNull(data.taskOutput),
        !.errorMessage = OrNull(data.errorMessage),
        !.completedAt = CompletedAtOf(data) ]

\* UpdateTaskData as the callers of this repository build it.
Data(status, taskOutput, errorMessage) ==
    [ status |-> status, taskOutput |-> taskOutput,
      errorMessage |-> errorMessage, completedAt |-> Undefined ]

VARIABLES
    agentRow,      \* status of the agent's row: "absent", "active", "paused", "deleted"
    ledger,        \* AgentTaskHistory rows in insertion order; a task's id is its index
    cpc,           \* POST /api/agents: position
    fundedAmount,  \* nearAccount.fundedAmount: "unset", "200" or "0"
    setupTask,     \* id of the setup record, 0 before it exists
    pc,            \* executeAgent: position
    stage,         \* executeAgent: index into StageTypes of the stage in progress
    agent,         \* executeAgent: the agent read at entry: "unset", "null" or its status
    taskIds,       \* executeAgent: const taskIds: string[]
    caught,        \* executeAgent: the error bound by catch (error)
    hidx,          \* executeAgent: position of the handler's for loop in taskIds
    htask,         \* executeAgent: the row getTask returned to the handler
    result,        \* what executeAgent settled with
    calls,         \* collaborators invoked by executeAgent, in order
    swapResult,    \* what executeTokenSwap returned
    epc,           \* executeTokenSwap: position
    transactions,  \* executeTokenSwap: the list generateSwapTransaction returned
    txs,           \* methods of the transactions signed and sent, in order
    i,             \* executeTokenSwap: loop index over transactions
    attempts,      \* executeTokenSwap: let attempts
    polls,         \* txStatus calls made so far, per method of the polled transaction
    finalized,     \* methods whose transaction a txStatus call reported SuccessValue for
    submitted,     \* methods of the transactions handed to signAndSendTransaction, in order
    ecaught,       \* executeTokenSwap: the error bound by its catch (error)
    wrapAmount,    \* executeTokenSwap: const wrapAmount
    wNearBalance,  \* executeTokenSwap: const wNearBalance
    swapAmount,    \* executeTokenSwap: const swapAmount
    getReturn,     \* estimateSwap: the arguments of the get_return query
    estimate,      \* executeTokenSwap: const estimate
    swapArgs,      \* generateSwapTransaction: the amounts written into the swap
    http,          \* status of the execute route's response, 0 before it answers
    fpc,           \* findPool / hasLiquidityPool: position
    scan,          \* which of the two scans runs: "findPool" or "hasLiquidityPool"
    chain,         \* the pool list of the DEX contract during the scan
    numPools,      \* findPool: const numPools
    from_index,    \* findPool: the loop variable i, from_index of the next get_pools
    requests,      \* the from_index of every get_pools query made, in order
    examined,      \* indexes of the pools whose token_account_ids were looked at
    poolId,        \* what the scan returned
    rpcFailed,     \* an RPC call of the scan was rejected
    catPc,         \* fetchAvailableTokens: position
    liquid,        \* account ids of the tokens that have a pool with wNEAR
    reachable,     \* account ids for which the RPC calls of hasLiquidityPool succeed
    indexerFailed, \* the indexer call of fetchAvailableTokens threw
    allTokens,     \* fetchAvailableTokens: const allTokens
    cand,          \* fetchAvailableTokens: position of its for loop in allTokens
    tokensWithLiquidity,  \* fetchAvailableTokens: const tokensWithLiquidity
    confirmed,     \* account ids hasLiquidityPool answered true for
    catalog,       \* what fetchAvailableTokens returned
    path,          \* where the catalog came from: "indexer", "fallback", "builtin"
    planPc,        \* planAgentTasks: position
    planText,      \* planAgentTasks: result.text
    planFailed,    \* planAgentTasks: its catch block ran
    plan,          \* what planAgentTasks returned
    predPc,        \* predictBestToken: position
    tokens,        \* predictBestToken: the catalog it was given
    agentGoal,     \* predictBestToken: the words of the goal the fallback looks for
    answer,        \* predictBestToken: what the model answered
    amtPc,         \* executeAgent's amount extraction: position
    description,   \* agent.description, as its words and numbers
    accountAmount, \* accountState.amount, in tenths of a NEAR
    entryBalance,  \* executeAgent: const balance, the string fetchAccountBalance returned
    amountInNear,  \* the amount executeAgent passes to executeTokenSwap, in tenths of a NEAR
    run,           \* per invocation of executeAgent for the agent: position and locals
    wrapped,       \* NEAR the account has deposited into the wrap contract so far
    wnear,         \* the account's balance on the wrap contract
    deposits,      \* the invocations whose near_deposit was submitted, in order
    provPc,        \* createNearAccount: position
    accountId,     \* createNearAccount: const accountId
    keyPair,       \* createNearAccount: const keyPair
    attempt,       \* createNearAccount: the loop variable attempt
    faucetCalls,   \* the requests sent to the faucet and what came back, in order
    lastError,     \* createNearAccount: let lastError
    delays,        \* the delay(ms) calls made, in order
    nearAccount,   \* what createNearAccount returned
    keyPc,         \* the two compared runs of executeAgent: their common position
    keyStage,      \* the two compared runs: index into StageTypes of the stage in progress
    agents,        \* per compared run, the agent getAgentWithPrivateKey returned
    given,         \* what the collaborators returned to both compared runs
    records,       \* per compared run, the task records it wrote, in order
    signer,        \* per compared run, the key its executor's key store holds
    returns,       \* per compared run, what executeAgent returned
    dexPc,         \* the lookups of one token: position
    dex,           \* the pool list of each DEX contract
    lookups,       \* the scans that have returned: which, the contract read, the result
    quotedPool,    \* estimateSwap: pool_id of its get_return query
    payloadPool,   \* generateSwapTransaction: pool_id written into swapMsg
    prediction     \* what predictBestToken returned

vars == << agentRow, ledger, cpc, fundedAmount, setupTask, pc, stage, agent,
           taskIds, caught, hidx, htask, result, calls, swapResult, epc,
           transactions, txs, i, attempts, polls, finalized, submitted,
           ecaught, wrapAmount, wNearBalance, swapAmount, getReturn, estimate,
           swapArgs, http, fpc, scan, chain, numPools, from_index, requests,
           examined, poolId, rpcFailed, catPc, liquid, reachable, indexerFailed,
           allTokens, cand, tokensWithLiquidity, confirmed, catalog, path, planPc,
           planText, planFailed, plan, predPc, tokens, agentGoal, answer,
           prediction,
           amtPc, description, accountAmount, entryBalance, amountInNear,
           run, wrapped, wnear, deposits,
           provPc, accountId, keyPair, attempt, faucetCalls, lastError, delays, nearAccount,
           keyPc, keyStage, agents, given, records, signer, returns,
           dexPc, dex, lookups, quotedPool, payloadPool >>

createVars == << cpc, fundedAmount, setupTask >>
runVars == << pc, stage, agent, taskIds, caught, hidx, htask, result, calls, http >>
swapVars == << submitted, ecaught, wrapAmount, wNearBalance, swapAmount, getReturn,
               estimate, swapArgs >>
execVars == << swapResult, epc, transactions, txs, i, attempts, polls, finalized,
               swapVars >>

poolVars == << fpc, scan, chain, numPools, from_index, requests, examined, poolId,
               rpcFailed >>
catVars == << catPc, liquid, reachable, indexerFailed, allTokens, cand,
              tokensWithLiquidity, confirmed, catalog, path >>
planVars == << planPc, planText, planFailed, plan >>
predVars == << predPc, tokens, agentGoal, answer, prediction >>
amountVars == << amtPc, description, accountAmount, entryBalance, amountInNear >>
overlapVars == << run, wrapped, wnear, deposits >>
faucetVars == << provPc, accountId, keyPair, attempt, faucetCalls, lastError, delays, nearAccount >>
keyVars == << keyPc, keyStage, agents, given, records, signer, returns >>
dexVars == << dexPc, dex, lookups, quotedPool, payloadPool >>
extVars == << amountVars, overlapVars, faucetVars, keyVars, dexVars >>
libVars == << poolVars, catVars, planVars, predVars, extVars >>
pipelineVars == << agentRow, ledger, createVars, runVars, execVars >>
outsideAmount == << pipelineVars, poolVars, catVars, planVars, predVars, overlapVars, faucetVars, keyVars, dexVars >>
outsideOverlap == << pipelineVars, poolVars, catVars, planVars, predVars, amountVars, faucetVars, keyVars, dexVars >>
outsideFaucet == << pipelineVars, poolVars, catVars, planVars, predVars, amountVars, overlapVars, keyVars, dexVars >>
outsideKey == << pipelineVars, poolVars, catVars, planVars, predVars, amountVars, overlapVars, faucetVars, dexVars >>
outsideDex == << pipelineVars, poolVars, catVars, planVars, predVars, amountVars, overlapVars, faucetVars, keyVars >>
aroundDex == << pipelineVars, catVars, planVars, predVars, amountVars, overlapVars, faucetVars, keyVars >>

Methods == {"near_deposit", "storage_deposit", "ft_transfer_call"}

NoResult == [kind |-> "none", success |-> FALSE, taskIds |-> << >>, error |-> Undefined]
NoSwapResult == [success |-> FALSE, transactionHash |-> Undefined, error |-> Undefined]
NoTask == [ taskType |-> Null, status |-> Null, taskOutput |-> Null,
            errorMessage |-> Null, completedAt |-> Null ]

\* An amount string: plain digits (sci = FALSE, the number m), or scientific
\* notation m e+e (sci = TRUE).
Plain(n) == [sci |-> FALSE, m |-> n, e |-> 0]

\* The amounts before executeTokenSwap has computed them.
NoAmount == Plain(0 - 1)
NoEstimate == [inputAmount |-> NoAmount, expectedOutput |-> NoAmount,
               minimumOutput |-> NoAmount]
NoArgs == [amount_in |-> NoAmount, min_amount_out |-> NoAmount, amount |-> NoAmount]

Init ==
    /\ agentRow = "absent"
    /\ ledger = << >>
    /\ cpc = "createNearAccount"
    /\ fundedAmount = "unset"
    /\ setupTask = 0
    /\ pc = "idle"
    /\ stage = 0
    /\ agent = "unset"
    /\ taskIds = << >>
    /\ caught = NoError
    /\ hidx = 0
    /\ htask = NoTask
    /\ result = NoResult
    /\ calls = << >>
    /\ swapResult = NoSwapResult
    /\ epc = "idle"
    /\ transactions = << >>
    /\ txs = << >>
    /\ i = 0
    /\ attempts = 0
    /\ polls = [m \in Methods |-> 0]
    /\ finalized = {}
    /\ submitted = << >>
    /\ ecaught = NoError
    /\ wrapAmount = NoAmount
    /\ wNearBalance = NoAmount
    /\ swapAmount = NoAmount
    /\ getReturn = [amount_in |-> NoAmount]
    /\ estimate = NoEstimate
    /\ swapArgs = NoArgs
    /\ http = 0
    /\ amtPc = "idle"
    /\ description = << >>
    /\ accountAmount = 0
    /\ entryBalance = [groups |-> << 0 >>, frac |-> 0]
    /\ amountInNear = 0 - 1
    /\ run = [p \in {1, 2} |-> [pc |-> "idle", error |-> "null", balance |-> [groups |-> << 0 >>, frac |-> 0], amount |-> 0 - 1, wNearBalance |-> 0 - 1, amount_in |-> 0 - 1]]
    /\ wrapped = 0
    /\ wnear = 0
    /\ deposits = << >>
    /\ provPc = "idle"
    /\ accountId = "null"
    /\ keyPair = [publicKey |-> "null", privateKey |-> "null"]
    /\ attempt = 0
    /\ faucetCalls = << >>
    /\ lastError = "null"
    /\ delays = << >>
    /\ nearAccount = [accountId |-> "null", privateKey |-> "null", publicKey |-> "null", fundedAmount |-> "unset"]
    /\ keyPc = "idle"
    /\ keyStage = 0
    /\ agents = [c \in {1, 2} |-> [accountId |-> "null", description |-> "null", status |-> "null", decryptedPrivateKey |-> "null"]]
    /\ given = [balance |-> "null", selectedToken |-> "null", symbol |-> "null", amount |-> "null"]
    /\ records = [c \in {1, 2} |-> << >>]
    /\ signer = [c \in {1, 2} |-> "null"]
    /\ returns = [c \in {1, 2} |-> [kind |-> "none", success |-> FALSE, error |-> "undefined"]]
    /\ dexPc = "idle"
    /\ dex = [c \in {"v2.ref-finance.testnet", "ref-finance-101.testnet"} |-> [count |-> 0, special |-> << >>]]
    /\ lookups = << >>
    /\ quotedPool = 0 - 1
    /\ payloadPool = 0 - 1
    /\ fpc = "idle"
    /\ scan = Null
    /\ chain = [count |-> 0, special |-> << >>]
    /\ numPools = 0
    /\ from_index = 0
    /\ requests = << >>
    /\ examined = {}
    /\ poolId = [value |-> "undefined", id |-> 0 - 1]
    /\ rpcFailed = FALSE
    /\ catPc = "idle"
    /\ liquid = {}
    /\ reachable = {}
    /\ indexerFailed = FALSE
    /\ allTokens = << >>
    /\ cand = 0
    /\ tokensWithLiquidity = << >>
    /\ confirmed = {}
    /\ catalog = << >>
    /\ path = Null
    /\ planPc = "idle"
    /\ planText = [fence |-> "none", body |-> [kind |-> "garbage", items |-> << >>]]
    /\ planFailed = FALSE
    /\ plan = << >>
    /\ predPc = "idle"
    /\ tokens = << >>
    /\ agentGoal = {}
    /\ answer = [kind |-> "none", selectedToken |-> "", reasoning |-> ""]
    /\ prediction = [ selectedToken |-> Null, symbol |-> Null,
                      price |-> [kind |-> "undefined", value |-> 0],
                      confidence |-> "none" ]

\* ------------------------------------------------- POST /api/agents (create)

\* const nearAccount = await createNearAccount(): funded by the faucet or not.
CreateNearAccount ==
    /\ cpc = "createNearAccount"
    /\ \E amount \in {"200", "0"} : fundedAmount' = amount
    /\ cpc' = "createAgent"
    /\ UNCHANGED << libVars, agentRow, ledger, setupTask, runVars, execVars >>

\* const agent = await agentService.createAgent(...): inserts the row with
\* status 'active', or rejects and the route answers 500.
CreateAgent ==
    /\ cpc = "createAgent"
    /\ \/ /\ agentRow' = "active"
          /\ cpc' = "createTask"
       \/ /\ cpc' = "responded"
          /\ UNCHANGED agentRow
    /\ UNCHANGED << libVars, ledger, fundedAmount, setupTask, runVars, execVars >>

\* Variant of isFunded: any fundedAmount string counts as funded.
isFunded_anyAmount(amount) == amount # "unset"

\* const isFunded = nearAccount.fundedAmount && parseFloat(...) > 0
isFunded(amount) == amount = "200"

\* const task = await taskHistoryService.createTask({taskType: 'setup', ...});
\* a rejection is caught and logged, the agent is still returned.
CreateSetupTask ==
    /\ cpc = "createTask"
    /\ \/ /\ ledger' = Append(ledger, NewTask("setup"))
          /\ setupTask' = Len(ledger) + 1
          /\ cpc' = IF isFunded(fundedAmount) THEN "updateTask" ELSE "responded"
       \/ /\ cpc' = "responded"
          /\ UNCHANGED << ledger, setupTask >>
    /\ UNCHANGED << libVars, agentRow, fundedAmount, runVars, execVars >>

\* if (isFunded) await taskHistoryService.updateTask(task.id, {status: 'completed', ...})
UpdateSetupTask ==
    /\ cpc = "updateTask"
    /\ \/ ledger' = [ledger EXCEPT ![setupTask] =
                        UpdatedTask(@, Data("completed", "funding", Undefined))]
       \/ UNCHANGED ledger
    /\ cpc' = "responded"
    /\ UNCHANGED << libVars, agentRow, fundedAmount, setupTask, runVars, execVars >>

\* Variant of UpdateAgent: pausing or deleting the agent cancels the run in
\* progress at its next stage boundary.
UpdateAgent_cancelsRun ==
    /\ agentRow # "absent"
    /\ \E s \in {"active", "paused", "deleted"} :
          /\ s # agentRow
          /\ agentRow' = s
          /\ IF s # "active" /\ pc \in {"createTask", "markRunning", "work", "complete"}
             THEN /\ caught' = [isError |-> TRUE, message |-> "Agent is not active"]
                  /\ pc' = "catch"
                  /\ hidx' = 1
             ELSE UNCHANGED << pc, caught, hidx >>
    /\ UNCHANGED << libVars, ledger, createVars, stage, agent, taskIds, htask, result,
                    calls, http, execVars >>

\* AgentService.updateAgent(agentId, userId, {status}): the owner pauses,
\* resumes or soft-deletes the agent.
UpdateAgent ==
    /\ agentRow # "absent"
    /\ \E s \in {"active", "paused", "deleted"} :
          /\ s # agentRow
          /\ agentRow' = s
    /\ UNCHANGED << libVars, ledger, createVars, runVars, execVars >>

\* ------------------------------------------------------------- executeAgent

\* throw inside the try block of executeAgent: control passes to catch (error).
Throw(e) ==
    /\ caught' = e
    /\ pc' = "catch"
    /\ hidx' = 1

\* Variant of EntryError: the status check is missing.
EntryError_noStatusCheck(a) == IF a = "null" THEN "Agent not found" ELSE Null

\* The error the entry checks throw for the agent that was read, Null if none:
\* if (!agent) ... ; if (agent.status !== 'active') ...
EntryError(a) ==
    IF a = "null" THEN "Agent not found"
    ELSE IF a # "active" THEN "Agent is not active"
    ELSE Null

\* What agentService.getAgentWithPrivateKey finds for the calling user.
FoundAgent == IF agentRow = "absent" THEN "null" ELSE agentRow

\* Entry of executeAgent: read the agent with its decrypted key, reject it
\* if missing or not active.  The read itself (query, decryption) can reject.
Entry ==
    /\ pc = "idle"
    /\ \/ /\ agent' = FoundAgent
          /\ IF EntryError(FoundAgent) # Null
             THEN Throw([isError |-> TRUE, message |-> EntryError(FoundAgent)])
             ELSE /\ pc' = "fetchAccountBalance"
                  /\ UNCHANGED << caught, hidx >>
       \/ /\ \E e \in Fail("agentService") : Throw(e)
          /\ UNCHANGED agent
    /\ UNCHANGED << libVars, agentRow, ledger, createVars, stage, taskIds, htask, result,
                    calls, http, execVars >>

\* const balance = await fetchAccountBalance(agent.accountId), which rethrows.
FetchAccountBalance ==
    /\ pc = "fetchAccountBalance"
    /\ calls' = Append(calls, "fetchAccountBalance")
    /\ \/ /\ pc' = "createTask"
          /\ stage' = 1
          /\ UNCHANGED << caught, hidx >>
       \/ /\ \E e \in Fail("rpc") : Throw(e)
          /\ UNCHANGED stage
    /\ UNCHANGED << libVars, agentRow, ledger, createVars, agent, taskIds, htask, result,
                    http, execVars >>

\* const t = await taskHistoryService.createTask({taskType, ...});
\* taskIds.push(t.id);
CreateTask ==
    /\ pc = "createTask"
    /\ \/ /\ ledger' = Append(ledger, NewTask(StageTypes[stage]))
          /\ taskIds' = Append(taskIds, Len(ledger) + 1)
          /\ pc' = "markRunning"
          /\ UNCHANGED << caught, hidx >>
       \/ /\ \E e \in Fail("ledger") : Throw(e)
          /\ UNCHANGED << ledger, taskIds >>
    /\ UNCHANGED << libVars, agentRow, createVars, stage, agent, htask, result, calls,
                    http, execVars >>

\* The id of the record of the stage in progress (planTask.id, fetchTask.id, ...).
CurrentTask == taskIds[Len(taskIds)]

\* await taskHistoryService.updateTask(t.id, { status: 'running' });
MarkRunning ==
    /\ pc = "markRunning"
    /\ \/ /\ ledger' = [ledger EXCEPT ![CurrentTask] =
                           UpdatedTask(@, Data("running", Undefined, Undefined))]
          /\ pc' = "work"
          /\ UNCHANGED << caught, hidx >>
       \/ /\ \E e \in Fail("ledger") : Throw(e)
          /\ UNCHANGED ledger
    /\ UNCHANGED << libVars, agentRow, createVars, stage, agent, taskIds, htask, result,
                    calls, http, execVars >>

\* planAgentTasks and fetchAvailableTokens catch their own failures and fall
\* back; both always return.
PlanOrFetch ==
    /\ pc = "work"
    /\ stage \in {1, 2}
    /\ calls' = Append(calls, IF stage = 1 THEN "planAgentTasks" ELSE "fetchAvailableTokens")
    /\ pc' = "complete"
    /\ UNCHANGED << libVars, agentRow, ledger, createVars, stage, agent, taskIds, caught,
                    hidx, htask, result, http, execVars >>

\* predictBestToken returns a model pick or a fallback pick; its fallback
\* dereferences tokens[0], which throws a TypeError on an empty catalog.
PredictBestToken ==
    /\ pc = "work"
    /\ stage = 3
    /\ calls' = Append(calls, "predictBestToken")
    /\ \/ /\ pc' = "complete"
          /\ UNCHANGED << caught, hidx >>
       \/ Throw([isError |-> TRUE, message |-> "Cannot read properties of undefined"])
    /\ UNCHANGED << libVars, agentRow, ledger, createVars, stage, agent, taskIds, htask,
                    result, http, execVars >>

\* await taskHistoryService.updateTask(t.id, { status: 'completed', taskOutput });
\* then the next stage.
Complete ==
    /\ pc = "complete"
    /\ \/ /\ ledger' = [ledger EXCEPT ![CurrentTask] =
                           UpdatedTask(@, Data("completed", StageOutputs[stage], Undefined))]
          /\ stage' = stage + 1
          /\ pc' = "createTask"
          /\ UNCHANGED << caught, hidx >>
       \/ /\ \E e \in Fail("ledger") : Throw(e)
          /\ UNCHANGED << ledger, stage >>
    /\ UNCHANGED << libVars, agentRow, createVars, agent, taskIds, htask, result, calls,
                    http, execVars >>

\* const swapResult = await executeTokenSwap(...): the executor starts.
CallExecuteTokenSwap ==
    /\ pc = "work"
    /\ stage = 4
    /\ calls' = Append(calls, "executeTokenSwap")
    /\ pc' = "awaitSwap"
    /\ epc' = "prepare"
    /\ UNCHANGED << libVars, agentRow, ledger, createVars, stage, agent, taskIds, caught,
                    hidx, htask, result, http, swapResult, transactions, txs, i,
                    attempts, polls, finalized, swapVars >>

\* Variant of SwapTaskData: the failed update drops the executor's error.
SwapTaskData_noMessage(r) ==
    IF r.success
    THEN Data("completed", "swapResult", Undefined)
    ELSE Data("failed", "swapResult", Undefined)

\* The terminal update of the execute_swap record:
\* if (swapResult.success) {completed} else {failed, errorMessage: swapResult.error}
SwapTaskData(r) ==
    IF r.success
    THEN Data("completed", "swapResult", Undefined)
    ELSE Data("failed", "swapResult", r.error)

\* The ExecutionResult returned after the swap record's terminal update:
\* return { success: true, taskIds }
FinalResult(r, ids) ==
    [kind |-> "returned", success |-> TRUE, taskIds |-> ids, error |-> Undefined]

\* The executor has returned: write the swap record's terminal status and return.
FinishSwap ==
    /\ pc = "awaitSwap"
    /\ epc = "done"
    /\ \/ /\ ledger' = [ledger EXCEPT ![CurrentTask] =
                           UpdatedTask(@, SwapTaskData(swapResult))]
          /\ result' = FinalResult(swapResult, taskIds)
          /\ pc' = "returned"
          /\ UNCHANGED << caught, hidx >>
       \/ /\ \E e \in Fail("ledger") : Throw(e)
          /\ UNCHANGED << ledger, result >>
    /\ UNCHANGED << libVars, agentRow, createVars, stage, agent, taskIds, htask, calls,
                    http, execVars >>

\* Variants of ShouldForceClose: the handler closes no record / every record.
ShouldForceClose_never(task) == FALSE
ShouldForceClose_always(task) == TRUE

\* if (task && task.status === 'running')
ShouldForceClose(task) == task.status = "running"

\* The handler's loop: const task = await taskHistoryService.getTask(taskId).
\* A rejection here is inside the catch block and leaves executeAgent.
HandlerGetTask ==
    /\ pc = "catch"
    /\ hidx <= Len(taskIds)
    /\ \/ /\ htask' = ledger[taskIds[hidx]]
          /\ IF ShouldForceClose(ledger[taskIds[hidx]])
             THEN pc' = "catchUpdate" /\ UNCHANGED hidx
             ELSE hidx' = hidx + 1 /\ UNCHANGED pc
          /\ UNCHANGED result
       \/ /\ \E e \in Fail("ledger") :
                result' = [kind |-> "thrown", success |-> FALSE,
                           taskIds |-> << >>, error |-> ErrMsg(e)]
          /\ pc' = "thrown"
          /\ UNCHANGED << htask, hidx >>
    /\ UNCHANGED << libVars, agentRow, ledger, createVars, stage, agent, taskIds, caught,
                    calls, http, execVars >>

\* await taskHistoryService.updateTask(taskId, {status: 'failed', errorMessage})
HandlerUpdateTask ==
    /\ pc = "catchUpdate"
    /\ \/ /\ ledger' = [ledger EXCEPT ![taskIds[hidx]] =
                           UpdatedTask(@, Data("failed", Undefined, ErrMsg(caught)))]
          /\ hidx' = hidx + 1
          /\ pc' = "catch"
          /\ UNCHANGED result
       \/ /\ \E e \in Fail("ledger") :
                result' = [kind |-> "thrown", success |-> FALSE,
                           taskIds |-> << >>, error |-> ErrMsg(e)]
          /\ pc' = "thrown"
          /\ UNCHANGED << ledger, hidx >>
    /\ UNCHANGED << libVars, agentRow, createVars, stage, agent, taskIds, caught, htask,
                    calls, http, execVars >>

\* return { success: false, taskIds, error }
HandlerReturn ==
    /\ pc = "catch"
    /\ hidx > Len(taskIds)
    /\ result' = [kind |-> "returned", success |-> FALSE, taskIds |-> taskIds,
                  error |-> ErrMsg(caught)]
    /\ pc' = "returned"
    /\ UNCHANGED << libVars, agentRow, ledger, createVars, stage, agent, taskIds, caught,
                    hidx, htask, calls, http, execVars >>

\* POST /api/agents/[id]/execute: 200 for result.success, 500 for a failed
\* result and, from its own catch, for a rejection of executeAgent.
HttpStatus(r) == IF r.kind = "returned" /\ r.success THEN 200 ELSE 500

Respond ==
    /\ pc \in {"returned", "thrown"}
    /\ http = 0
    /\ http' = HttpStatus(result)
    /\ UNCHANGED << libVars, agentRow, ledger, createVars, pc, stage, agent, taskIds,
                    caught, hidx, htask, result, calls, execVars >>

\* --------------------------------------------------------- executeTokenSwap

\* convertScientificToString(value): a string without exponent marker is
\* returned as it is, one with an exponent is written out in full digits.
convertScientificToString(value) ==
    IF ~value.sci THEN value ELSE Plain(value.m * (10 ^ value.e))

\* utils.format.parseNearAmount(amountInNear) for the amounts of the runs.
WrapAmounts == {Plain(5)}

\* What ft_balance_of can answer after the wrap (a U128 as a JSON string): the
\* account may hold less or more wNEAR than was just wrapped.
Balances == {Plain(4), Plain(5)}

\* What get_return can answer (a U128 as a JSON string).
ExpectedOutputs == {Plain(101), Plain(250)}

\* Variant of MinimumOutput: the slippage is subtracted as floor(E / 100).
MinimumOutput_subtracted(expectedOutput) ==
    Plain(expectedOutput.m - (expectedOutput.m \div 100))

\* (BigInt(expectedOutput) * BigInt(99) / BigInt(100)).toString()
MinimumOutput(expectedOutput) == Plain((expectedOutput.m * 99) \div 100)

\* throw inside the try block of executeTokenSwap: its catch returns
\* { success: false, error: error instanceof Error ? error.message : "Unknown error" }
ExecThrow(e) ==
    /\ swapResult' = [success |-> FALSE, transactionHash |-> Undefined, error |-> ErrMsg(e)]
    /\ ecaught' = e
    /\ epc' = "done"

\* Import near-api-js, build the key pair and the key store, connect, parse the
\* amount: nothing is submitted yet.  A malformed key or amount throws.
Prepare ==
    /\ epc = "prepare"
    /\ \/ /\ epc' = "wrap"
          /\ \E a \in WrapAmounts : wrapAmount' = a
          /\ UNCHANGED << swapResult, ecaught >>
       \/ /\ \E e \in Fail("near-api-js") : ExecThrow(e)
          /\ UNCHANGED wrapAmount
    /\ UNCHANGED << libVars, agentRow, ledger, createVars, runVars, transactions, txs, i,
                    attempts, polls, finalized, submitted, wNearBalance, swapAmount, getReturn,
                    estimate, swapArgs >>

\* Step 1: account.signAndSendTransaction({receiverId: WRAP_NEAR_CONTRACT, near_deposit}).
\* A rejected call may or may not have put the transaction on the chain.
Wrap ==
    /\ epc = "wrap"
    /\ submitted' = Append(submitted, "near_deposit")
    /\ \/ /\ txs' = Append(txs, "near_deposit")
          /\ epc' = "balance"
          /\ UNCHANGED << swapResult, ecaught >>
       \/ /\ \E e \in Fail("rpc") : ExecThrow(e)
          /\ UNCHANGED txs
    /\ UNCHANGED << libVars, agentRow, ledger, createVars, runVars, transactions, i,
                    attempts, polls, finalized, wrapAmount, wNearBalance, swapAmount, getReturn,
                    estimate, swapArgs >>

\* Variant of SwapAmount: the nominal wrap amount is swapped.
SwapAmount_nominal(balance, nominal) == nominal

\* const swapAmount = wNearBalance;
SwapAmount(balance, nominal) == balance

\* Step 2: provider.query(ft_balance_of) on the wrap contract.
ReadBalance ==
    /\ epc = "balance"
    /\ \/ /\ epc' = "estimate"
          /\ \E balance \in Balances :
                /\ wNearBalance' = balance
                /\ swapAmount' = SwapAmount(balance, wrapAmount)
          /\ UNCHANGED << swapResult, ecaught >>
       \/ /\ \E e \in Fail("rpc") : ExecThrow(e)
          /\ UNCHANGED << wNearBalance, swapAmount >>
    /\ UNCHANGED << libVars, agentRow, ledger, createVars, runVars, transactions, txs, i,
                    attempts, polls, finalized, submitted, wrapAmount, getReturn,
                    estimate, swapArgs >>

NoPool == [isError |-> TRUE, message |-> "No liquidity pool found"]

\* Step 3: estimateSwap(NEAR_TOKEN, swapAmount, ...): findPool (null: throw),
\* then the get_return query with amount_in: inputAmountStr, then the estimate.
EstimateSwap ==
    /\ epc = "estimate"
    /\ \/ /\ epc' = "generate"
          /\ getReturn' = [amount_in |-> convertScientificToString(swapAmount)]
          /\ \E expectedOutput \in ExpectedOutputs :
                estimate' = [ inputAmount |-> swapAmount,
                              expectedOutput |-> expectedOutput,
                              minimumOutput |-> MinimumOutput(expectedOutput) ]
          /\ UNCHANGED << swapResult, ecaught >>
       \/ /\ ExecThrow(NoPool)
          /\ UNCHANGED << getReturn, estimate >>
       \/ /\ \E e \in Fail("rpc") : ExecThrow(e)
          /\ getReturn' = [amount_in |-> convertScientificToString(swapAmount)]
          /\ UNCHANGED estimate
    /\ UNCHANGED << libVars, agentRow, ledger, createVars, runVars, transactions, txs, i,
                    attempts, polls, finalized, submitted, wrapAmount, wNearBalance, swapAmount,
                    swapArgs >>

\* Variant of generateSwapTransaction: the wrap is put in the list whatever
\* needsWrapping says.
generateSwapTransaction_alwaysWraps(needsWrapping) ==
    << "near_deposit", "storage_deposit", "ft_transfer_call" >>

\* The methods of the list generateSwapTransaction builds, in order.
generateSwapTransaction(needsWrapping) ==
    (IF needsWrapping THEN << "near_deposit" >> ELSE << >>)
        \o << "storage_deposit", "ft_transfer_call" >>

\* The amounts generateSwapTransaction writes into the swap: amount_in and
\* min_amount_out of swapMsg, amount of ft_transfer_call.
SwapArgs(inputAmount, minimumOutput) ==
    [ amount_in |-> convertScientificToString(inputAmount),
      min_amount_out |-> convertScientificToString(minimumOutput),
      amount |-> convertScientificToString(inputAmount) ]

\* Step 4: generateSwapTransaction(NEAR_TOKEN, swapAmount, ...,
\* estimate.minimumOutput, ..., false): its own findPool (null: throw), then
\* the list; the for loop starts at i = 0.
GenerateSwapTransaction ==
    /\ epc = "generate"
    /\ \/ /\ transactions' = generateSwapTransaction(FALSE)
          /\ swapArgs' = SwapArgs(swapAmount, estimate.minimumOutput)
          /\ i' = 0
          /\ epc' = "send"
          /\ UNCHANGED << swapResult, ecaught >>
       \/ /\ ExecThrow(NoPool)
          /\ UNCHANGED << transactions, i, swapArgs >>
    /\ UNCHANGED << libVars, agentRow, ledger, createVars, runVars, txs, attempts, polls,
                    finalized, submitted, wrapAmount, wNearBalance, swapAmount, getReturn,
                    estimate >>

\* if (i < transactions.length - 1): wait for finality before the next one.
WaitsForFinality(idx, n) == idx < n - 1

\* Step 5: account.signAndSendTransaction(transactions[i]).
Send ==
    /\ epc = "send"
    /\ i < Len(transactions)
    /\ submitted' = Append(submitted, transactions[i + 1])
    /\ \/ /\ txs' = Append(txs, transactions[i + 1])
          /\ IF WaitsForFinality(i, Len(transactions))
             THEN /\ epc' = "poll"
                  /\ attempts' = 0
                  /\ UNCHANGED i
             ELSE /\ i' = i + 1
                  /\ UNCHANGED << epc, attempts >>
          /\ UNCHANGED << swapResult, ecaught >>
       \/ /\ \E e \in Fail("rpc") : ExecThrow(e)
          /\ UNCHANGED << txs, i, attempts >>
    /\ UNCHANGED << libVars, agentRow, ledger, createVars, runVars, transactions, polls,
                    finalized, wrapAmount, wNearBalance, swapAmount, getReturn, estimate,
                    swapArgs >>

\* Variant of PollAgain: the loop bound is off by one.
PollAgain_offByOne(n) == n <= maxAttempts

\* while (attempts < maxAttempts)
PollAgain(n) == n < maxAttempts

\* One turn of the finality loop: txStatus(txHash, accountId, "FINAL").  A
\* SuccessValue status breaks out and the for loop goes on; any other status
\* and a rejected call both count one attempt.
Poll ==
    /\ epc = "poll"
    /\ PollAgain(attempts)
    /\ polls' = [polls EXCEPT ![transactions[i + 1]] = @ + 1]
    /\ \/ /\ finalized' = finalized \cup {transactions[i + 1]}
          /\ i' = i + 1
          /\ epc' = "send"
          /\ UNCHANGED attempts
       \/ /\ attempts' = attempts + 1
          /\ UNCHANGED << finalized, i, epc >>
    /\ UNCHANGED << libVars, agentRow, ledger, createVars, runVars, swapResult,
                    transactions, txs, swapVars >>

\* if (attempts >= maxAttempts) throw new Error(`... did not finalize in time`)
PollExhausted ==
    /\ epc = "poll"
    /\ ~PollAgain(attempts)
    /\ ExecThrow([isError |-> TRUE, message |-> "did not finalize in time"])
    /\ UNCHANGED << libVars, agentRow, ledger, createVars, runVars, transactions, txs, i,
                    attempts, polls, finalized, submitted, wrapAmount, wNearBalance, swapAmount,
                    getReturn, estimate, swapArgs >>

\* return { success: true, transactionHash: txHashes[txHashes.length - 1], ... }
ExecReturn ==
    /\ epc = "send"
    /\ i >= Len(transactions)
    /\ swapResult' = [success |-> TRUE, transactionHash |-> txs[Len(txs)],
                      error |-> Undefined]
    /\ epc' = "done"
    /\ UNCHANGED << libVars, agentRow, ledger, createVars, runVars, transactions, txs, i,
                    attempts, polls, finalized, swapVars >>

\* ------------------------------------------------------------ specification

Next ==
    \/ CreateNearAccount
    \/ CreateAgent
    \/ CreateSetupTask
    \/ UpdateSetupTask
    \/ UpdateAgent
    \/ Entry
    \/ FetchAccountBalance
    \/ CreateTask
    \/ MarkRunning
    \/ PlanOrFetch
    \/ PredictBestToken
    \/ Complete
    \/ CallExecuteTokenSwap
    \/ FinishSwap
    \/ HandlerGetTask
    \/ HandlerUpdateTask
    \/ HandlerReturn
    \/ Respond
    \/ Prepare
    \/ Wrap
    \/ ReadBalance
    \/ EstimateSwap
    \/ GenerateSwapTransaction
    \/ Send
    \/ Poll
    \/ PollExhausted
    \/ ExecReturn

Spec == Init /\ [][Next]_vars

\* ------------------------------------------- the ledger on its own interface

\* Every UpdateTaskData the interface accepts: a status, and optionally an
\* output, an error message (possibly empty) and an explicit completedAt.
UpdateTaskDatas ==
    [ status : Statuses,
      taskOutput : {Undefined, "output"},
      errorMessage : {Undefined, "", "message"},
      completedAt : {Undefined, "given"} ]

\* taskHistoryService.createTask(data), by any caller.
LedgerCreateTask ==
    /\ Len(ledger) < MaxTasks
    /\ ledger' = Append(ledger, NewTask("execute_swap"))
    /\ UNCHANGED << libVars, agentRow, createVars, runVars, execVars >>

\* taskHistoryService.updateTask(taskId, data), by any caller with any data.
LedgerUpdateTask ==
    /\ \E id \in DOMAIN ledger, data \in UpdateTaskDatas :
          ledger' = [ledger EXCEPT ![id] = UpdatedTask(@, data)]
    /\ UNCHANGED << libVars, agentRow, createVars, runVars, execVars >>

NextLedger ==
    \/ LedgerCreateTask
    \/ LedgerUpdateTask

SpecLedger == Init /\ [][NextLedger]_vars

\* ------------------------------------------- findPool and hasLiquidityPool

\* const batchSize = 100 in both scans.
batchSize == 100

\* Math.min(numPools, 500) in findPool, Math.min(numPools, 200) in
\* hasLiquidityPool.
ScanCap(which) == IF which = "findPool" THEN 500 ELSE 200

Min(a, b) == IF a < b THEN a ELSE b

\* The two tokens the scan looks for, and a third one.
tokenIn == "wrap.testnet"
tokenOut == "usdt.fakes.testnet"

\* token_account_ids of the pools that matter to the scan: the pair in either
\* order, a pool with only one of the two, a three-token pool with both.
TokenArrays ==
    { << tokenIn, tokenOut >>, << tokenOut, tokenIn >>,
      << tokenIn, "dai.fakes.testnet" >>,
      << "dai.fakes.testnet", tokenOut, tokenIn >> }

\* Pool lists: get_number_of_pools answers count; the pools at the indexes of
\* special hold the given tokens, every other pool holds two unrelated tokens.
PoolCounts == {0, 50, 100, 150, 250, 500, 501, 600}
PoolIndexes == {0, 99, 100, 199, 200, 499, 500}
Chains ==
    { [count |-> c, special |-> f] :
        c \in PoolCounts,
        f \in UNION { [D -> TokenArrays] :
                        D \in { X \in SUBSET PoolIndexes : Cardinality(X) <= 2 } } }

\* token_account_ids of pool k of the list.
PoolAt(list, k) ==
    IF k \in DOMAIN list.special THEN list.special[k]
    ELSE << "ref.fakes.testnet", "eth.fakes.testnet" >>

\* array.includes(x)
Includes(array, x) == \E k \in DOMAIN array : array[k] = x

\* Variant of Matches: only the pools listing tokenIn first match.
Matches_ordered(pool, a, b) == pool[1] = a /\ Includes(pool, b)

\* hasTokenIn && hasTokenOut
Matches(pool, a, b) == Includes(pool, a) /\ Includes(pool, b)

\* The indexes get_pools({from_index, limit}) answers for.
Page(list, from, limit) == { k \in from .. (from + limit - 1) : k < list.count }

\* The catch block of the scan: findPool returns null, hasLiquidityPool false.
NotFound(which) ==
    [value |-> IF which = "findPool" THEN "null" ELSE "false", id |-> 0 - 1]
\* return poolId (findPool), return true (hasLiquidityPool).
Found(which, k) ==
    IF which = "findPool" THEN [value |-> "number", id |-> k]
    ELSE [value |-> "true", id |-> 0 - 1]

\* findPool(tokenIn, tokenOut, network) or hasLiquidityPool(tokenId) is called.
FindPoolCall ==
    /\ fpc = "idle"
    /\ \E which \in {"findPool", "hasLiquidityPool"}, list \in Chains :
          /\ scan' = which
          /\ chain' = list
    /\ fpc' = "numPools"
    /\ UNCHANGED << pipelineVars, extVars, catVars, planVars, predVars, numPools, from_index, requests, examined, poolId,
                    rpcFailed >>

\* provider.query(get_number_of_pools); a rejection ends in the catch block.
GetNumberOfPools ==
    /\ fpc = "numPools"
    /\ \/ /\ numPools' = chain.count
          /\ from_index' = 0
          /\ fpc' = "loop"
          /\ UNCHANGED << poolId, rpcFailed >>
       \/ /\ poolId' = NotFound(scan)
          /\ rpcFailed' = TRUE
          /\ fpc' = "done"
          /\ UNCHANGED << numPools, from_index >>
    /\ UNCHANGED << pipelineVars, extVars, catVars, planVars, predVars, scan, chain, requests, examined >>

\* One turn of for (let i = 0; i < Math.min(numPools, cap); i += batchSize):
\* provider.query(get_pools, {from_index: i, limit: batchSize}), then the pools
\* of the page in order until one matches.
GetPools ==
    /\ fpc = "loop"
    /\ from_index < Min(numPools, ScanCap(scan))
    /\ requests' = Append(requests, from_index)
    /\ \/ /\ UNCHANGED rpcFailed
          /\ LET page == Page(chain, from_index, batchSize)
                 hits == { k \in page : Matches(PoolAt(chain, k), tokenIn, tokenOut) }
             IN  IF hits # {}
                 THEN LET first == CHOOSE k \in hits : \A h \in hits : k <= h
                      IN  /\ poolId' = Found(scan, first)
                          /\ examined' = examined \cup { k \in page : k <= first }
                          /\ fpc' = "done"
                          /\ UNCHANGED from_index
                 ELSE /\ examined' = examined \cup page
                      /\ from_index' = from_index + batchSize
                      /\ UNCHANGED << poolId, fpc >>
       \/ /\ poolId' = NotFound(scan)
          /\ rpcFailed' = TRUE
          /\ fpc' = "done"
          /\ UNCHANGED << from_index, examined >>
    /\ UNCHANGED << pipelineVars, extVars, catVars, planVars, predVars, scan, chain, numPools >>

\* The loop ran out: return null (findPool), return false (hasLiquidityPool).
FindPoolReturn ==
    /\ fpc = "loop"
    /\ ~(from_index < Min(numPools, ScanCap(scan)))
    /\ poolId' = NotFound(scan)
    /\ fpc' = "done"
    /\ UNCHANGED << pipelineVars, extVars, catVars, planVars, predVars, scan, chain, numPools, from_index, requests,
                    examined, rpcFailed >>

NextFindPool ==
    \/ FindPoolCall
    \/ GetNumberOfPools
    \/ GetPools
    \/ FindPoolReturn

SpecFindPool == Init /\ [][NextFindPool]_vars

\* ------------------------------------------------------ fetchAvailableTokens

WRAP_NEAR_TOKEN == "wrap.testnet"

\* slice(0, 30): the candidates checked for liquidity.
MaxCandidates == 30

\* tokensWithLiquidity.length >= 15 and slice(0, 15): the size of the catalog.
MaxTokens == 15

\* A price as it stands in the data: a numeral (value in thousandths, cut off), a text
\* parseFloat makes NaN of, or no price at all.
Price(v) == [kind |-> "number", value |-> v]
BadPrice == [kind |-> "text", value |-> 0]
NoPrice == [kind |-> "undefined", value |-> 0]

\* parseFloat(price)
ParseFloat(p) ==
    IF p.kind = "number" THEN [nan |-> FALSE, value |-> p.value]
    ELSE [nan |-> TRUE, value |-> 0]

\* Variant of PositivePrice: a zero price passes the filter.
PositivePrice_nonNegative(token) ==
    ~ParseFloat(token.price).nan /\ ParseFloat(token.price).value >= 0

\* .filter((token) => parseFloat(token.price) > 0)
PositivePrice(token) ==
    ~ParseFloat(token.price).nan /\ ParseFloat(token.price).value > 0

\* .sort((a, b) => parseFloat(b.price) - parseFloat(a.price)) on tokens with
\* numeric prices: descending, equal prices keep their order.
InsertDesc(sorted, token) ==
    LET ahead == Cardinality({ k \in DOMAIN sorted :
                    ParseFloat(sorted[k].price).value >= ParseFloat(token.price).value })
    IN  SubSeq(sorted, 1, ahead) \o << token >> \o SubSeq(sorted, ahead + 1, Len(sorted))

RECURSIVE SortDesc(_)
SortDesc(list) ==
    IF list = << >> THEN << >>
    ELSE InsertDesc(SortDesc(SubSeq(list, 1, Len(list) - 1)), list[Len(list)])

\* array.slice(0, n)
Slice(array, n) == SubSeq(array, 1, IF n < Len(array) THEN n ELSE Len(array))

\* The account ids of the data sets; wrap.testnet is one of them.
TokenNames ==
    << "t01.testnet", "t02.testnet", "t03.testnet", "t04.testnet", "t05.testnet", "t06.testnet",
       "t07.testnet", "t08.testnet", "t09.testnet", "t10.testnet", "t11.testnet", "t12.testnet",
       "t13.testnet", "t14.testnet", "t15.testnet", "t16.testnet", "t17.testnet", "t18.testnet",
       "t19.testnet", "t20.testnet", "t21.testnet", "t22.testnet", "t23.testnet", "t24.testnet",
       "t25.testnet", "t26.testnet", "t27.testnet", "t28.testnet", "t29.testnet", "t30.testnet",
       "t31.testnet", "t32.testnet", "wrap.testnet", "t34.testnet" >>

\* Entry k of a data set under a pricing: "rising" prices grow with k, "ties"
\* prices repeat, "mixed" has zero, unparsable, missing and negative prices.
PriceOf(k, pricing) ==
    CASE pricing = "rising" -> Price(k * 1000)
      [] pricing = "ties" -> Price(((k % 3) + 1) * 1000)
      [] OTHER ->
           CASE k % 5 = 0 -> Price(0)
             [] k % 5 = 1 -> BadPrice
             [] k % 5 = 2 -> NoPrice
             [] k % 5 = 3 -> Price(0 - k)
             [] OTHER -> Price(((7 * k) % 4) + 1)

DataEntry(k, pricing) ==
    [ token_account_id |-> TokenNames[k], symbol |-> TokenNames[k],
      price |-> PriceOf(k, pricing) ]

DatasetSizes == {0, 3, 20, 34}
Pricings == {"rising", "ties", "mixed"}

\* What the indexer can answer with: Object.entries(data), in key order.
Datasets ==
    { [k \in 1 .. n |-> DataEntry(k, pricing)] : n \in DatasetSizes, pricing \in Pricings }

\* The bundled testnet-tokens-fallback.json: any data set.
FallbackDatasets == Datasets

\* Which tokens have a pool with wNEAR among the first pools of the DEX, and
\* for which tokens the RPC calls of hasLiquidityPool go through.
TokenSets ==
    { {},
      { TokenNames[k] : k \in DOMAIN TokenNames },
      { TokenNames[k] : k \in { n \in DOMAIN TokenNames : n % 2 = 1 } },
      { TokenNames[k] : k \in 1 .. 3 } }

\* Variant of hasLiquidityPool: a rejected RPC call counts as a pool.
hasLiquidityPool_failOpen(tokenId, pooled, answering) ==
    tokenId \in pooled \/ tokenId \notin answering

\* hasLiquidityPool(tokenId): true when the scan finds a pool, false when it
\* finds none and when an RPC call is rejected.
hasLiquidityPool(tokenId, pooled, answering) ==
    tokenId \in pooled /\ tokenId \in answering

\* allTokens of fetchAvailableTokens: price defaulted to "0", filtered, sorted.
AllTokens(data) ==
    SortDesc(SelectSeq(
        [k \in DOMAIN data |->
            [data[k] EXCEPT !.price = IF @.kind = "undefined" THEN Price(0) ELSE @]],
        PositivePrice))

\* tokens of loadFallbackTokens: filtered, sorted, cut to 15.
FallbackTokens(data) == Slice(SortDesc(SelectSeq(data, PositivePrice)), MaxTokens)

\* The minimal set of known tokens loadFallbackTokens returns from its catch.
BuiltinTokens ==
    << [token_account_id |-> "wbtc.fakes.testnet", symbol |-> "WBTC",
        price |-> Price(101700000)],
       [token_account_id |-> "usdt.fakes.testnet", symbol |-> "USDT.e",
        price |-> Price(999)],
       [token_account_id |-> "dai.fakes.testnet", symbol |-> "DAI",
        price |-> Price(999)] >>

\* Variant of LoadFallbackCatch: the error of the import is thrown on.
LoadFallbackCatch_rethrow(error) == [raised |-> TRUE, tokens |-> << >>]

\* catch (error) of loadFallbackTokens: return the built-in list.
LoadFallbackCatch(error) == [raised |-> FALSE, tokens |-> BuiltinTokens]

\* await fetch(REF_FINANCE_TOKEN_API), response.ok, await response.json() and
\* the map/filter/sort: the candidates, or the catch block when any of it throws.
FetchTokens ==
    /\ catPc = "idle"
    /\ \E pooled \in TokenSets, answering \in TokenSets :
          /\ liquid' = pooled
          /\ reachable' = answering
    /\ \/ \E data \in Datasets :
             /\ allTokens' = AllTokens(data)
             /\ cand' = 1
             /\ catPc' = "loop"
             /\ UNCHANGED indexerFailed
       \/ /\ indexerFailed' = TRUE
          /\ catPc' = "fallback"
          /\ UNCHANGED << allTokens, cand >>
    /\ UNCHANGED << pipelineVars, extVars, poolVars, planVars, predVars, tokensWithLiquidity, confirmed, catalog,
                    path >>

\* One turn of for (const token of allTokens.slice(0, 30)): wNEAR is skipped,
\* a token with a pool is pushed; the loop breaks at 15 tokens.
CheckLiquidity ==
    /\ catPc = "loop"
    /\ cand <= Len(Slice(allTokens, MaxCandidates))
    /\ Len(tokensWithLiquidity) < MaxTokens
    /\ LET token == allTokens[cand]
       IN  IF /\ token.token_account_id # WRAP_NEAR_TOKEN
              /\ hasLiquidityPool(token.token_account_id, liquid, reachable)
           THEN /\ tokensWithLiquidity' = Append(tokensWithLiquidity, token)
                /\ confirmed' = confirmed \cup {token.token_account_id}
           ELSE UNCHANGED << tokensWithLiquidity, confirmed >>
    /\ cand' = cand + 1
    /\ UNCHANGED << pipelineVars, extVars, poolVars, planVars, predVars, catPc, liquid, reachable, allTokens,
                    catalog, path, indexerFailed >>

\* After the loop: no token with liquidity goes to loadFallbackTokens, otherwise
\* return tokensWithLiquidity.
ReturnTokens ==
    /\ catPc = "loop"
    /\ \/ cand > Len(Slice(allTokens, MaxCandidates))
       \/ Len(tokensWithLiquidity) >= MaxTokens
    /\ IF Len(tokensWithLiquidity) = 0
       THEN /\ catPc' = "fallback"
            /\ UNCHANGED << catalog, path >>
       ELSE /\ catalog' = tokensWithLiquidity
            /\ path' = "indexer"
            /\ catPc' = "done"
    /\ UNCHANGED << pipelineVars, extVars, poolVars, planVars, predVars, liquid, reachable, allTokens, cand,
                    tokensWithLiquidity, confirmed, indexerFailed >>

\* loadFallbackTokens(): the bundled data set filtered, sorted and cut, or the
\* built-in list when the import or the mapping throws.
LoadFallbackTokens ==
    /\ catPc = "fallback"
    /\ \/ \E data \in FallbackDatasets :
             /\ catalog' = FallbackTokens(data)
             /\ path' = "fallback"
             /\ catPc' = "done"
       \/ \E e \in Fail("import") :
             IF LoadFallbackCatch(e).raised
             THEN /\ catPc' = "raised"
                  /\ UNCHANGED << catalog, path >>
             ELSE /\ catalog' = LoadFallbackCatch(e).tokens
                  /\ path' = "builtin"
                  /\ catPc' = "done"
    /\ UNCHANGED << pipelineVars, extVars, poolVars, planVars, predVars, liquid, reachable, allTokens, cand,
                    tokensWithLiquidity, confirmed, indexerFailed >>

NextCatalog ==
    \/ FetchTokens
    \/ CheckLiquidity
    \/ ReturnTokens
    \/ LoadFallbackTokens

SpecCatalog == Init /\ [][NextCatalog]_vars

\* ------------------------------------------------------------ planAgentTasks

\* The entries a model can put into its JSON array: a PlannedTask with an
\* order, one without type, one without description, one with order 0 or
\* without order, and null.
PlanEntries ==
    { [type |-> "fetch_tokens", description |-> "d", order |-> 1],
      [type |-> "predict_token", description |-> "d", order |-> 2],
      [type |-> "execute_swap", description |-> "d", order |-> 3],
      [type |-> "", description |-> "d", order |-> 4],
      [type |-> "analyze_market", description |-> "", order |-> 5],
      [type |-> "prepare_swap", description |-> "d", order |-> 0],
      [type |-> Null, description |-> Null, order |-> 0 - 1] }

\* What the text of the model holds once the fence is taken off: a JSON array
\* of up to MaxPlanLen entries, a JSON value that is no array, or no JSON.
MaxPlanLen == 2
JsonArrays == UNION { [1 .. n -> PlanEntries] : n \in 0 .. MaxPlanLen }
PlanBodies ==
    { [kind |-> "array", items |-> a] : a \in JsonArrays }
        \cup { [kind |-> "object", items |-> << >>], [kind |-> "garbage", items |-> << >>] }

\* result.text: the body bare, inside ```json ... ```, inside ``` ... ```, or
\* after an opening fence that is never closed.
Fences == {"none", "json", "generic", "unclosed"}
PlanTexts == { [fence |-> f, body |-> b] : f \in Fences, b \in PlanBodies }

\* jsonText: the inside of a matched fence, otherwise the whole text.
JsonText(text) ==
    IF text.fence = "unclosed"
    THEN [kind |-> "garbage", items |-> << >>]
    ELSE text.body

\* task.type && task.description && task.order
ValidTask(task) == task.type # "" /\ task.description # "" /\ task.order # 0

\* .sort((a, b) => a.order - b.order): ascending, equal orders keep their order.
InsertAsc(sorted, task) ==
    LET ahead == Cardinality({ k \in DOMAIN sorted : sorted[k].order <= task.order })
    IN  SubSeq(sorted, 1, ahead) \o << task >> \o SubSeq(sorted, ahead + 1, Len(sorted))

RECURSIVE SortAsc(_)
SortAsc(list) ==
    IF list = << >> THEN << >>
    ELSE InsertAsc(SortAsc(SubSeq(list, 1, Len(list) - 1)), list[Len(list)])

\* The fallback of the catch block.
DefaultPlan ==
    << [type |-> "fetch_tokens", description |-> "d", order |-> 1],
       [type |-> "analyze_market", description |-> "d", order |-> 2],
       [type |-> "predict_token", description |-> "d", order |-> 3],
       [type |-> "prepare_swap", description |-> "d", order |-> 4],
       [type |-> "execute_swap", description |-> "d", order |-> 5] >>

\* JSON.parse(jsonText), filter and sort throw: for text that is no JSON, for a
\* value without .filter, for a null entry (task.type of null).
ParseThrows(json) ==
    \/ json.kind # "array"
    \/ \E k \in DOMAIN json.items : json.items[k].type = Null

\* const result = await generateText(...): the text, or a rejection that the
\* catch block answers with the default plan.
GenerateText ==
    /\ planPc = "idle"
    /\ \/ \E text \in PlanTexts :
             /\ planText' = text
             /\ planPc' = "parse"
             /\ UNCHANGED plan
       \/ /\ plan' = DefaultPlan
          /\ planPc' = "done"
          /\ UNCHANGED planText
    /\ planFailed' = (planPc' = "done")
    /\ UNCHANGED << pipelineVars, extVars, poolVars, catVars, predVars >>

\* The rest of the try block: extract, parse, filter, sort, return; the catch
\* block returns the default plan.
ParsePlan ==
    /\ planPc = "parse"
    /\ IF ParseThrows(JsonText(planText))
       THEN /\ plan' = DefaultPlan
            /\ planFailed' = TRUE
       ELSE /\ plan' = SortAsc(SelectSeq(JsonText(planText).items, ValidTask))
            /\ planFailed' = FALSE
    /\ planPc' = "done"
    /\ UNCHANGED << pipelineVars, extVars, poolVars, catVars, predVars, planText >>

NextPlanner ==
    \/ GenerateText
    \/ ParsePlan

SpecPlanner == Init /\ [][NextPlanner]_vars

\* ---------------------------------------------------------- predictBestToken

\* Catalog entries: two stablecoins with the same symbol, a BTC and an ETH
\* token, and one that matches no keyword.
CatalogTokens ==
    { [token_account_id |-> "usdt.fakes.testnet", symbol |-> "USDT.e", price |-> Price(999)],
      [token_account_id |-> "usdt2.fakes.testnet", symbol |-> "USDT.e", price |-> Price(998)],
      [token_account_id |-> "wbtc.fakes.testnet", symbol |-> "WBTC", price |-> Price(101700000)],
      [token_account_id |-> "eth.fakes.testnet", symbol |-> "ETH", price |-> Price(3000000)],
      [token_account_id |-> "ref.fakes.testnet", symbol |-> "REF", price |-> Price(120)] }

\* The catalogs predictBestToken is given: up to MaxCatalog different entries
\* in any order, the empty catalog among them.
MaxCatalog == 2
Catalogs ==
    { c \in UNION { [1 .. n -> CatalogTokens] : n \in 0 .. MaxCatalog } :
        \A k \in DOMAIN c : \A n \in DOMAIN c : k # n => c[k] # c[n] }

\* The words of agentGoal.toLowerCase() the fallback tests for ("btc" stands
\* for btc or bitcoin, "eth" for eth or ethereum).
Goals == SUBSET {"stable", "btc", "eth"}

\* What generateText can lead to: a rejection, text that is no JSON, JSON
\* without selectedToken or without reasoning, JSON naming a token by contract
\* id, by symbol, in the wrong case, or a token that is not in any catalog.
Identifiers ==
    { t.token_account_id : t \in CatalogTokens } \cup { t.symbol : t \in CatalogTokens }
        \cup { "usdt.e", "pepe.fakes.testnet" }
Answers ==
    { [kind |-> "reject", selectedToken |-> "", reasoning |-> ""],
      [kind |-> "garbage", selectedToken |-> "", reasoning |-> ""],
      [kind |-> "json", selectedToken |-> "", reasoning |-> "r"] }
        \cup { [kind |-> "json", selectedToken |-> id, reasoning |-> r] :
                 id \in Identifiers, r \in {"", "r"} }

\* symbol.toLowerCase().includes(word) for the symbols of CatalogTokens.
SymbolIncludes(symbol, word) ==
    \/ symbol = "USDT.e" /\ word = "usdt"
    \/ symbol = "WBTC" /\ word = "btc"
    \/ symbol = "ETH" /\ word = "eth"

\* array.find(test): the first of the indexes passing the test, 0 for undefined.
FindFirst(passing) ==
    IF passing = {} THEN 0
    ELSE CHOOSE k \in passing : \A n \in passing : k <= n

\* tokens.find(t => t.token_account_id === selectedToken || t.symbol === selectedToken)
MatchingToken(list, selectedToken) ==
    FindFirst({ k \in DOMAIN list :
                  \/ list[k].token_account_id = selectedToken
                  \/ list[k].symbol = selectedToken })

\* Variant of Normalized: the model's identifier is kept as it was answered.
Normalized_raw(token, selectedToken) ==
    [ selectedToken |-> selectedToken, symbol |-> token.symbol, price |-> token.price,
      confidence |-> "model" ]

\* prediction.selectedToken / symbol / price overwritten from matchingToken;
\* reasoning and confidence stay the model's.
Normalized(token, selectedToken) ==
    [ selectedToken |-> token.token_account_id, symbol |-> token.symbol,
      price |-> token.price, confidence |-> "model" ]

\* The try block throws: the call was rejected, the text is no JSON, a required
\* field is missing, or no catalog entry matches.
ModelPathThrows(list, a) ==
    \/ a.kind # "json"
    \/ a.selectedToken = ""
    \/ a.reasoning = ""
    \/ MatchingToken(list, a.selectedToken) = 0

\* Variant of FallbackIndex: a keyword whose token is missing falls through
\* to the next keyword.
FallbackIndex_fallsThrough(list, goal) ==
    LET stable == { k \in DOMAIN list :
                      \E w \in {"usdt", "usdc", "dai", "usn", "busd"} :
                         SymbolIncludes(list[k].symbol, w) }
        btc == { k \in DOMAIN list : SymbolIncludes(list[k].symbol, "btc") }
        eth == { k \in DOMAIN list : SymbolIncludes(list[k].symbol, "eth") }
    IN  IF "stable" \in goal /\ stable # {} THEN FindFirst(stable)
        ELSE IF "btc" \in goal /\ btc # {} THEN FindFirst(btc)
        ELSE IF "eth" \in goal /\ eth # {} THEN FindFirst(eth)
        ELSE 1

\* The index the keyword fallback picks: tokens[0] unless the goal mentions
\* stable (first stablecoin symbol), else btc, else eth, and a token is found.
FallbackIndex(list, goal) ==
    LET stable == { k \in DOMAIN list :
                      \E w \in {"usdt", "usdc", "dai", "usn", "busd"} :
                         SymbolIncludes(list[k].symbol, w) }
        btc == { k \in DOMAIN list : SymbolIncludes(list[k].symbol, "btc") }
        eth == { k \in DOMAIN list : SymbolIncludes(list[k].symbol, "eth") }
        found == IF "stable" \in goal THEN FindFirst(stable)
                 ELSE IF "btc" \in goal THEN FindFirst(btc)
                 ELSE IF "eth" \in goal THEN FindFirst(eth)
                 ELSE 0
    IN  IF found # 0 THEN found ELSE 1

\* const result = await generateText(...) for a catalog and a goal.
AskModel ==
    /\ predPc = "idle"
    /\ \E list \in Catalogs, goal \in Goals, a \in Answers :
          /\ tokens' = list
          /\ agentGoal' = goal
          /\ answer' = a
    /\ predPc' = "answered"
    /\ UNCHANGED << pipelineVars, extVars, poolVars, catVars, planVars, prediction >>

\* The rest of the try block and the catch block: the normalized model pick,
\* or the fallback pick with confidence 0.5; fallbackToken.symbol of an empty
\* catalog throws a TypeError out of the catch block.
Predict ==
    /\ predPc = "answered"
    /\ IF ~ModelPathThrows(tokens, answer)
       THEN /\ prediction' = Normalized(tokens[MatchingToken(tokens, answer.selectedToken)],
                                        answer.selectedToken)
            /\ predPc' = "done"
       ELSE IF tokens = << >>
            THEN /\ predPc' = "raised"
                 /\ UNCHANGED prediction
            ELSE /\ prediction' =
                      [ selectedToken |-> tokens[FallbackIndex(tokens, agentGoal)].token_account_id,
                        symbol |-> tokens[FallbackIndex(tokens, agentGoal)].symbol,
                        price |-> tokens[FallbackIndex(tokens, agentGoal)].price,
                        confidence |-> "0.5" ]
                 /\ predPc' = "done"
    /\ UNCHANGED << pipelineVars, extVars, poolVars, catVars, planVars, tokens, agentGoal,
                    answer >>

NextPredictor ==
    \/ AskModel
    \/ Predict

SpecPredictor == Init /\ [][NextPredictor]_vars

\* ------------------------------------------ executeAgent: the swap amount

\* A word of the agent's description, and a number written in it.  Numbers
\* and balances are counted in tenths of a NEAR.
Word(w) == [word |-> w, num |-> 0]
Num(n) == [word |-> "#", num |-> n]

\* Longest description the amount specification draws, in words.
MaxWords == 4

\* The words the patterns look for, and the numbers 0, 0.5, 2 and 20.
Vocabulary ==
    {Word(w) : w \in {"maximum", "max", "swap", "near", "token"}}
        \cup {Num(n) : n \in {0, 5, 20, 200}}

Descriptions == UNION {[1..n -> Vocabulary] : n \in 0..MaxWords}

\* Account balances: 0, 0.3, 10 and 1500 NEAR.
AccountAmounts == {0, 3, 100, 15000}

\* utils.format.formatNearAmount(accountState.amount): the whole part grouped
\* by thousands with commas, a point, the fraction.
formatNearAmount(amount) ==
    LET whole == amount \div 10
    IN  [ groups |-> IF whole >= 1000
                     THEN << whole \div 1000, whole % 1000 >>
                     ELSE << whole >>,
          frac |-> amount % 10 ]

\* parseFloat(balance): the longest prefix that is a number, which ends at
\* the first comma.
ParseFloatBalance(str) ==
    IF Len(str.groups) = 1 THEN str.groups[1] * 10 + str.frac
    ELSE str.groups[1] * 10

\* let swapAmount = '0.5'
DefaultAmount == 5

\* const amountPatterns: the words before and after the captured number.
amountPatterns ==
    << [before |-> << "maximum" >>, after |-> << "near" >>],
       [before |-> << "max" >>, after |-> << "near" >>],
       [before |-> << "swap" >>, after |-> << "near" >>],
       [before |-> << >>, after |-> << "near", "token" >>],
       [before |-> << >>, after |-> << "near" >>] >>

\* The pattern occurs in the text at word j.
MatchesAt(text, pattern, j) ==
    LET shape == pattern.before \o << "#" >> \o pattern.after
    IN  /\ j + Len(shape) - 1 <= Len(text)
        /\ \A k \in 1..Len(shape) : text[j + k - 1].word = shape[k]

\* description.match(pattern): the leftmost occurrence and its captured
\* number match[1], or null.
Match(text, pattern) ==
    LET at == {j \in 1..Len(text) : MatchesAt(text, pattern, j)}
    IN  IF at = {} THEN [matched |-> FALSE, group1 |-> 0]
        ELSE LET j == CHOOSE a \in at : \A b \in at : a <= b
             IN  [matched |-> TRUE, group1 |-> text[j + Len(pattern.before)].num]

\* if (amount > 0 && amount <= parseFloat(balance))
Fits(amount, limit) == amount > 0 /\ amount <= limit

\* The for loop over amountPatterns from pattern k on: the first captured
\* number that fits, or the default.
RECURSIVE SwapAmountFrom(_, _, _)
SwapAmountFrom(text, limit, k) ==
    IF k > Len(amountPatterns) THEN DefaultAmount
    ELSE LET match == Match(text, amountPatterns[k])
         IN  IF match.matched /\ Fits(match.group1, limit)
             THEN match.group1
             ELSE SwapAmountFrom(text, limit, k + 1)

\* Entry of executeAgent: the agent's description and the balance of its
\* account are read.
AmountEntry ==
    /\ amtPc = "idle"
    /\ \E text \in Descriptions, amount \in AccountAmounts :
          /\ description' = text
          /\ accountAmount' = amount
          /\ entryBalance' = formatNearAmount(amount)
    /\ amtPc' = "extract"
    /\ UNCHANGED << outsideAmount, amountInNear >>

\* The swap stage computes the amount it passes to executeTokenSwap.
ExtractAmount ==
    /\ amtPc = "extract"
    /\ amountInNear' = SwapAmountFrom(description, ParseFloatBalance(entryBalance), 1)
    /\ amtPc' = "swap"
    /\ UNCHANGED << outsideAmount, description, accountAmount, entryBalance >>

NextAmount ==
    \/ AmountEntry
    \/ ExtractAmount

SpecAmount == Init /\ [][NextAmount]_vars

\* ------------------------------------------ overlapping runs of one agent

\* Two invocations of executeAgent for the same agent, e.g. two requests to
\* POST /api/agents/[id]/execute.  Amounts are in tenths of a NEAR; fees are
\* left out.
Runs == {1, 2}

\* The agent's description in these runs: 'swap 2 near'.
AgentDescription == << Word("swap"), Num(20), Word("near") >>

\* What the faucet funded the account with.
FundedTenths(amount) == IF amount = "200" THEN 2000 ELSE 0

\* accountState.amount: the funding less what has been wrapped.
NearBalance == FundedTenths(fundedAmount) - wrapped

\* The invocation is inside executeTokenSwap.
Swapping(p) == run[p].pc \in {"wrap", "readBalance", "swap"}

\* An await of invocation p rejects and the invocation ends.
RunFails(p, who) ==
    \E e \in Fail(who) :
        run' = [run EXCEPT ![p].pc = "returned", ![p].error = ErrMsg(e)]

\* Variant of RunEntry: an invocation is refused while another invocation
\* for the agent is in progress.
RunEntry_serialized(p) ==
    /\ run[p].pc = "idle"
    /\ IF \E q \in Runs \ {p} : run[q].pc \notin {"idle", "returned"}
       THEN run' = [run EXCEPT ![p].pc = "returned",
                               ![p].error = "Agent is already running"]
       ELSE run' = [run EXCEPT
                       ![p].pc = IF EntryError(FoundAgent) = Null
                                 THEN "fetchAccountBalance" ELSE "returned",
                       ![p].error = EntryError(FoundAgent)]
    /\ UNCHANGED << outsideOverlap, wrapped, wnear, deposits >>

\* Entry of executeAgent: the agent is read and its status checked.
RunEntry(p) ==
    /\ run[p].pc = "idle"
    /\ \/ run' = [run EXCEPT
                     ![p].pc = IF EntryError(FoundAgent) = Null
                               THEN "fetchAccountBalance" ELSE "returned",
                     ![p].error = EntryError(FoundAgent)]
       \/ RunFails(p, "agentService")
    /\ UNCHANGED << outsideOverlap, wrapped, wnear, deposits >>

\* const balance = await fetchAccountBalance(agent.accountId)
RunFetchBalance(p) ==
    /\ run[p].pc = "fetchAccountBalance"
    /\ \/ run' = [run EXCEPT ![p].pc = "stages",
                             ![p].balance = formatNearAmount(NearBalance)]
       \/ RunFails(p, "rpc")
    /\ UNCHANGED << outsideOverlap, wrapped, wnear, deposits >>

\* The plan, fetch and predict stages, then the swap amount and the call of
\* executeTokenSwap.
RunStages(p) ==
    /\ run[p].pc = "stages"
    /\ \/ run' = [run EXCEPT
                     ![p].pc = "wrap",
                     ![p].amount = SwapAmountFrom(AgentDescription,
                                                  ParseFloatBalance(run[p].balance), 1)]
       \/ RunFails(p, "ledger")
    /\ UNCHANGED << outsideOverlap, wrapped, wnear, deposits >>

\* executeTokenSwap step 1: near_deposit of the amount asked for.
RunWrap(p) ==
    /\ run[p].pc = "wrap"
    /\ deposits' = Append(deposits, p)
    /\ \/ /\ NearBalance >= run[p].amount
          /\ wrapped' = wrapped + run[p].amount
          /\ wnear' = wnear + run[p].amount
          /\ run' = [run EXCEPT ![p].pc = "readBalance"]
       \/ /\ RunFails(p, "near-api-js")
          /\ UNCHANGED << wrapped, wnear >>
    /\ UNCHANGED outsideOverlap

\* executeTokenSwap step 2: ft_balance_of the account on the wrap contract.
RunReadBalance(p) ==
    /\ run[p].pc = "readBalance"
    /\ \/ run' = [run EXCEPT ![p].pc = "swap", ![p].wNearBalance = wnear]
       \/ RunFails(p, "rpc")
    /\ UNCHANGED << outsideOverlap, wrapped, wnear, deposits >>

\* executeTokenSwap steps 3 to 5: the estimate, the transactions, and the
\* ft_transfer_call of swapAmount; a swap that fails on chain leaves the
\* wrapped funds with the account.
RunSwap(p) ==
    /\ run[p].pc = "swap"
    /\ LET amount_in == SwapAmount(run[p].wNearBalance, run[p].amount)
       IN  \/ /\ amount_in > 0
              /\ wnear >= amount_in
              /\ wnear' = wnear - amount_in
              /\ run' = [run EXCEPT ![p].pc = "returned", ![p].amount_in = amount_in]
           \/ /\ \E e \in Fail("near-api-js") :
                    run' = [run EXCEPT ![p].pc = "returned", ![p].error = ErrMsg(e),
                                       ![p].amount_in = amount_in]
              /\ UNCHANGED wnear
           \/ /\ RunFails(p, "rpc")
              /\ UNCHANGED wnear
    /\ UNCHANGED << outsideOverlap, wrapped, deposits >>

NextOverlap ==
    \/ CreateNearAccount
    \/ CreateAgent
    \/ UpdateAgent
    \/ \E p \in Runs :
          \/ RunEntry(p)
          \/ RunFetchBalance(p)
          \/ RunStages(p)
          \/ RunWrap(p)
          \/ RunReadBalance(p)
          \/ RunSwap(p)

SpecOverlap == Init /\ [][NextOverlap]_vars

\* -------------------------------------------------------- createNearAccount

\* const MAX_RETRIES = 5
MAX_RETRIES == 5

\* const RETRY_DELAY_MS = 1000
RETRY_DELAY_MS == 1000

\* Account ids generateAccountId can produce and key pairs KeyPair.fromRandom
\* can produce.
AccountIds == {"agent-1.testnet", "agent-2.testnet"}
KeyPairs == { [publicKey |-> "ed25519:pk1", privateKey |-> "ed25519:sk1"],
              [publicKey |-> "ed25519:pk2", privateKey |-> "ed25519:sk2"] }

\* What await fetch(FAUCET_URL, ...) can do: reject, or resolve with a
\* response whose body text (read only when !response.ok) is a sequence of
\* words, or cannot be read.
Texts == { << "Rate", "limit", "exceeded" >>, << "rate", "limit", "exceeded" >>,
           << "Internal", "error" >>, << >> }
Responses ==
    { [rejected |-> TRUE, ok |-> FALSE, status |-> 0, textFails |-> FALSE, text |-> << >>],
      [rejected |-> FALSE, ok |-> TRUE, status |-> 200, textFails |-> FALSE, text |-> << >>] }
    \cup { [rejected |-> FALSE, ok |-> FALSE, status |-> s, textFails |-> FALSE, text |-> t] :
              s \in {429, 500}, t \in Texts }
    \cup { [rejected |-> FALSE, ok |-> FALSE, status |-> s, textFails |-> TRUE,
            text |-> << >>] : s \in {429, 500} }

\* errorText.includes("Rate limit")
IncludesRateLimit(text) ==
    \E j \in 1..(Len(text) - 1) : text[j] = "Rate" /\ text[j + 1] = "limit"

\* if (response.status === 429 || errorText.includes("Rate limit"))
RateLimited(r) == r.status = 429 \/ IncludesRateLimit(r.text)

\* What fundFromFaucet returns for what fetch did; its catch turns a
\* rejected fetch or a body that cannot be read into a plain failure.
fundFromFaucet(r) ==
    IF r.rejected \/ (~r.ok /\ r.textFails)
    THEN [success |-> FALSE, rateLimited |-> FALSE]
    ELSE IF r.ok THEN [success |-> TRUE, rateLimited |-> FALSE]
    ELSE IF RateLimited(r) THEN [success |-> FALSE, rateLimited |-> TRUE]
    ELSE [success |-> FALSE, rateLimited |-> FALSE]

\* return { accountId, privateKey, publicKey, fundedAmount }
NearAccountResult(amount) ==
    [accountId |-> accountId, privateKey |-> keyPair.privateKey,
     publicKey |-> keyPair.publicKey, fundedAmount |-> amount]

RECURSIVE Pow2(_)
Pow2(n) == IF n = 0 THEN 1 ELSE 2 * Pow2(n - 1)

\* The key pair and the account id are generated, once, before the loop.
Generate ==
    /\ provPc = "idle"
    /\ \E id \in AccountIds, kp \in KeyPairs :
          /\ accountId' = id
          /\ keyPair' = kp
    /\ attempt' = 0
    /\ provPc' = "loop"
    /\ UNCHANGED << outsideFaucet, faucetCalls, lastError, delays, nearAccount >>

\* One turn of the for loop: await fundFromFaucet(accountId, publicKey), a
\* return on success or on a rate limit, lastError otherwise.
RequestFunding ==
    /\ provPc = "loop"
    /\ attempt < MAX_RETRIES
    /\ \E r \in Responses :
          /\ faucetCalls' = Append(faucetCalls,
                                   [newAccountId |-> accountId,
                                    newAccountPublicKey |-> keyPair.publicKey,
                                    response |-> r])
          /\ IF fundFromFaucet(r).success
             THEN /\ nearAccount' = NearAccountResult("200")
                  /\ provPc' = "returned"
                  /\ UNCHANGED << lastError, attempt >>
             ELSE IF fundFromFaucet(r).rateLimited
             THEN /\ nearAccount' = NearAccountResult("0")
                  /\ provPc' = "returned"
                  /\ UNCHANGED << lastError, attempt >>
             ELSE /\ lastError' = "Faucet request failed"
                  /\ IF attempt < MAX_RETRIES - 1
                     THEN provPc' = "delay" /\ UNCHANGED attempt
                     ELSE attempt' = attempt + 1 /\ UNCHANGED provPc
                  /\ UNCHANGED nearAccount
    /\ UNCHANGED << outsideFaucet, accountId, keyPair, delays >>

\* await delay(RETRY_DELAY_MS * Math.pow(2, attempt)), then attempt++.
Delay ==
    /\ provPc = "delay"
    /\ delays' = Append(delays, RETRY_DELAY_MS * Pow2(attempt))
    /\ attempt' = attempt + 1
    /\ provPc' = "loop"
    /\ UNCHANGED << outsideFaucet, accountId, keyPair, faucetCalls, lastError, nearAccount >>

\* The loop ran out: the account is returned unfunded.
ReturnUnfunded ==
    /\ provPc = "loop"
    /\ attempt >= MAX_RETRIES
    /\ nearAccount' = NearAccountResult("0")
    /\ provPc' = "returned"
    /\ UNCHANGED << outsideFaucet, accountId, keyPair, attempt, faucetCalls, lastError, delays >>

NextFaucet ==
    \/ Generate
    \/ RequestFunding
    \/ Delay
    \/ ReturnUnfunded

SpecFaucet == Init /\ [][NextFaucet]_vars

\* Every settled promise is resumed: a step of createNearAccount that can be
\* taken is taken.
SpecFaucetLive == SpecFaucet /\ WF_vars(NextFaucet)

\* ------------------------------------- executeAgent: where the key flows

\* Two runs of executeAgent that are given the same agent, except for its
\* private key, and the same answers by every collaborator.  A JSON object
\* is the set of its <<name, value>> pairs.
Copies == {1, 2}

\* The private keys createNearAccount can have generated for the agent.
Keys == {kp.privateKey : kp \in KeyPairs}

\* What getAgentWithPrivateKey returns: the row and decryptedPrivateKey.
AgentWithDecryptedKey(id, text, key) ==
    [accountId |-> id, description |-> text, status |-> "active",
     decryptedPrivateKey |-> key]

\* Variant of PlanTaskInput: the whole agent object is logged.
PlanTaskInput_wholeAgent(a, bal) ==
    { << "description", a.description >>, << "balance", bal >>,
      << "accountId", a.accountId >>,
      << "decryptedPrivateKey", a.decryptedPrivateKey >> }

\* taskInput: { description: agent.description, balance }
PlanTaskInput(a, bal) == { << "description", a.description >>, << "balance", bal >> }

\* The taskInput of the record of stage n.
TaskInput(n, a, g) ==
    CASE n = 1 -> PlanTaskInput(a, g.balance)
      [] n = 2 -> {}
      [] n = 3 -> { << "tokenCount", "tokens.length" >> }
      [] n = 4 -> { << "token", g.selectedToken >>, << "symbol", g.symbol >>,
                    << "amount", g.amount >> }

\* The taskOutput of the record of stages 1 to 3: { tasks }, { tokenCount,
\* tokens }, prediction.
TaskOutput(n, g) ==
    CASE n = 1 -> { << "tasks", "tasks" >> }
      [] n = 2 -> { << "tokenCount", "tokens.length" >>, << "tokens", "tokens" >> }
      [] n = 3 -> { << "selectedToken", g.selectedToken >>, << "symbol", g.symbol >> }

\* What executeTokenSwap can return: success with the hash of the last
\* transaction, or the message of the error it caught.
SwapResults ==
    { { << "success", "true" >>, << "transactionHash", h >>,
        << "amountSwapped", "amount" >> } : h \in {"hash1", "hash2"} }
    \cup { { << "success", "false" >>, << "error", ErrMsg(e) >> } :
             e \in Fail("near-api-js") \cup Fail("rpc") }

\* swapResult.error
ErrorOf(swap) ==
    IF \E p \in swap : p[1] = "error"
    THEN (CHOOSE p \in swap : p[1] = "error")[2]
    ELSE Undefined

\* The row createTask inserts followed by updateTask(id, {status: 'running'}).
RunningRecord(taskType, input) ==
    [taskType |-> taskType, status |-> "running", taskInput |-> input,
     taskOutput |-> {}, errorMessage |-> Null]

\* The catch block of executeAgent on the rows of one run: every running
\* record is failed with the message of the error.
ForceClosed(rows, e) ==
    [k \in DOMAIN rows |->
        IF rows[k].status = "running"
        THEN [rows[k] EXCEPT !.status = "failed", !.errorMessage = ErrMsg(e)]
        ELSE rows[k]]

\* An await of both runs rejects with the same error: the handler closes the
\* running records and executeAgent returns the failure.
KeyThrow(e) ==
    /\ records' = [c \in Copies |-> ForceClosed(records[c], e)]
    /\ returns' = [c \in Copies |->
                      [kind |-> "returned", success |-> FALSE, error |-> ErrMsg(e)]]
    /\ keyPc' = "returned"

\* Entry: each run reads the agent with its own decrypted key; both read
\* the same balance.
KeyEntry ==
    /\ keyPc = "idle"
    /\ \E id \in AccountIds, text \in {"swap 2 near", "find a stable token"},
          k1 \in Keys, k2 \in Keys, bal \in {"200", "0"} :
          /\ agents' = [c \in Copies |->
                           AgentWithDecryptedKey(id, text, IF c = 1 THEN k1 ELSE k2)]
          /\ given' = [given EXCEPT !.balance = bal]
    /\ keyStage' = 1
    /\ keyPc' = "createTask"
    /\ UNCHANGED << outsideKey, records, signer, returns >>

\* createTask with the stage's taskInput, then updateTask to running.  The
\* swap stage first takes the prediction and works out the amount.
KeyCreateTask ==
    /\ keyPc = "createTask"
    /\ \/ /\ records' = [c \in Copies |->
                            Append(records[c],
                                   RunningRecord(StageTypes[keyStage],
                                                 TaskInput(keyStage, agents[c], given)))]
          /\ keyPc' = "work"
          /\ UNCHANGED returns
       \/ \E e \in Fail("ledger") : KeyThrow(e)
    /\ UNCHANGED << outsideKey, keyStage, agents, given, signer >>

\* planAgentTasks, fetchAvailableTokens, predictBestToken and the completed
\* update of the stage's record.
KeyCompleteStage ==
    /\ keyPc = "work"
    /\ keyStage \in 1..3
    /\ \/ \E token \in {"usdt.fakes.testnet", "wbtc.fakes.testnet"}, amount \in {"0.5", "2"} :
             LET g == IF keyStage = 3
                      THEN [given EXCEPT !.selectedToken = token, !.symbol = "symbol",
                                         !.amount = amount]
                      ELSE given
             IN  /\ given' = g
                 /\ records' = [c \in Copies |->
                                   [records[c] EXCEPT ![keyStage] =
                                       [@ EXCEPT !.status = "completed",
                                                 !.taskOutput = TaskOutput(keyStage, g)]]]
                 /\ keyStage' = keyStage + 1
                 /\ keyPc' = "createTask"
                 /\ UNCHANGED returns
       \/ /\ \E e \in Fail("ledger") : KeyThrow(e)
          /\ UNCHANGED << given, keyStage >>
    /\ UNCHANGED << outsideKey, agents, signer >>

\* executeTokenSwap(agent.accountId, agent.decryptedPrivateKey, prediction,
\* swapAmount): the key goes into the executor's key store; then the swap
\* record's terminal update and the return.
KeyExecuteSwap ==
    /\ keyPc = "work"
    /\ keyStage = 4
    /\ signer' = [c \in Copies |-> agents[c].decryptedPrivateKey]
    /\ \/ \E swap \in SwapResults :
             /\ records' = [c \in Copies |->
                               [records[c] EXCEPT ![4] =
                                   [@ EXCEPT
                                       !.status = IF << "success", "true" >> \in swap
                                                  THEN "completed" ELSE "failed",
                                       !.taskOutput = swap,
                                       !.errorMessage = OrNull(ErrorOf(swap))]]]
             /\ returns' = [c \in Copies |->
                               [kind |-> "returned", success |-> TRUE, error |-> Undefined]]
             /\ keyPc' = "returned"
       \/ \E e \in Fail("ledger") : KeyThrow(e)
    /\ UNCHANGED << outsideKey, keyStage, agents, given >>

NextKey ==
    \/ KeyEntry
    \/ KeyCreateTask
    \/ KeyCompleteStage
    \/ KeyExecuteSwap

SpecKey == Init /\ [][NextKey]_vars

\* --------------------------------------------- the pool lookups of a token

\* const REF_FINANCE_CONTRACT = "v2.ref-finance.testnet" of the token analyzer.
REF_FINANCE_CONTRACT == "v2.ref-finance.testnet"

\* getRefConfig(network).contractId
getRefConfig(network) ==
    IF network = "mainnet" THEN "v2.ref-finance.near" ELSE "ref-finance-101.testnet"

\* The contract a scan sends get_number_of_pools and get_pools to; the swap
\* executor passes network "testnet" to estimateSwap and generateSwapTransaction.
ContractOf(which) ==
    IF which = "hasLiquidityPool" THEN REF_FINANCE_CONTRACT ELSE getRefConfig("testnet")

\* Pool lists of a DEX contract: 600 pools, the pair wNEAR / token in none,
\* one or two of the pools 0, 199 and 200.
DexChains ==
    { c \in Chains :
        /\ c.count = 600
        /\ DOMAIN c.special \subseteq {0, 199, 200}
        /\ \A k \in DOMAIN c.special : c.special[k] = << tokenIn, tokenOut >> }

DexStates == [{REF_FINANCE_CONTRACT, getRefConfig("testnet")} -> DexChains]

\* A scan is called: it reads the pool list of its contract.
StartScan(which, state) ==
    /\ fpc = "idle"
    /\ scan' = which
    /\ chain' = state[ContractOf(which)]
    /\ fpc' = "numPools"
    /\ numPools' = 0
    /\ from_index' = 0
    /\ requests' = << >>
    /\ examined' = {}
    /\ rpcFailed' = FALSE
    /\ UNCHANGED poolId

\* The scan has returned to its caller.
EndScan ==
    /\ fpc = "done"
    /\ fpc' = "idle"
    /\ lookups' = Append(lookups, [which |-> scan, contract |-> ContractOf(scan),
                                   poolId |-> poolId, rpcFailed |-> rpcFailed])
    /\ UNCHANGED << scan, chain, numPools, from_index, requests, examined, poolId,
                    rpcFailed >>

\* fetchAvailableTokens asks hasLiquidityPool(token) for a token of the indexer.
HasLiquidityPoolCall ==
    /\ dexPc = "idle"
    /\ \E state \in DexStates :
          /\ dex' = state
          /\ StartScan("hasLiquidityPool", state)
    /\ dexPc' = "prefilter"
    /\ UNCHANGED << aroundDex, lookups, quotedPool, payloadPool >>

\* hasLiquidityPool returns.
HasLiquidityPoolReturn ==
    /\ dexPc = "prefilter"
    /\ EndScan
    /\ dexPc' = IF poolId.value = "true" THEN "listed" ELSE "dropped"
    /\ UNCHANGED << aroundDex, dex, quotedPool, payloadPool >>

\* The token is in the catalog and was predicted; the swap path calls
\* findPool(NEAR_TOKEN, token, "testnet") while the DEX is as it was.
SwapFindPoolCall ==
    /\ dexPc = "listed"
    /\ StartScan("findPool", dex)
    /\ dexPc' = "swap"
    /\ UNCHANGED << aroundDex, dex, lookups, quotedPool, payloadPool >>

\* findPool returns to the swap path.
SwapFindPoolReturn ==
    /\ dexPc = "swap"
    /\ EndScan
    /\ dexPc' = "looked"
    /\ UNCHANGED << aroundDex, dex, quotedPool, payloadPool >>

NextPrefilter ==
    \/ HasLiquidityPoolCall
    \/ HasLiquidityPoolReturn
    \/ SwapFindPoolCall
    \/ SwapFindPoolReturn
    \/ GetNumberOfPools
    \/ GetPools
    \/ FindPoolReturn

SpecPrefilter == Init /\ [][NextPrefilter]_vars

\* estimateSwap(NEAR_TOKEN, swapAmount, token, "testnet") calls findPool.
EstimateFindPoolCall ==
    /\ dexPc = "idle"
    /\ \E state \in DexStates :
          /\ dex' = state
          /\ StartScan("findPool", state)
    /\ dexPc' = "estimate"
    /\ UNCHANGED << aroundDex, lookups, quotedPool, payloadPool >>

\* if (poolId === null) throw; otherwise get_return({pool_id: poolId, ...})
\* gives expectedOutput and minimumOutput for that pool.
EstimateReturn ==
    /\ dexPc = "estimate"
    /\ EndScan
    /\ IF poolId.value = "number"
       THEN quotedPool' = poolId.id /\ dexPc' = "quoted"
       ELSE UNCHANGED quotedPool /\ dexPc' = "failed"
    /\ UNCHANGED << aroundDex, dex, payloadPool >>

\* Between the estimate and the build the pool list of the DEX changes.
DexChange ==
    /\ dexPc = "quoted"
    /\ \E state \in DexStates :
          /\ state # dex
          /\ dex' = state
    /\ UNCHANGED << outsideDex, dexPc, lookups, quotedPool, payloadPool >>

\* generateSwapTransaction(NEAR_TOKEN, swapAmount, token, estimate.minimumOutput,
\* "testnet", ...) calls findPool again.
BuildFindPoolCall ==
    /\ dexPc = "quoted"
    /\ StartScan("findPool", dex)
    /\ dexPc' = "build"
    /\ UNCHANGED << aroundDex, dex, lookups, quotedPool, payloadPool >>

\* if (poolId === null) throw; otherwise swapMsg.actions[0].pool_id = poolId.
BuildReturn ==
    /\ dexPc = "build"
    /\ EndScan
    /\ IF poolId.value = "number"
       THEN payloadPool' = poolId.id /\ dexPc' = "built"
       ELSE UNCHANGED payloadPool /\ dexPc' = "failed"
    /\ UNCHANGED << aroundDex, dex, quotedPool >>

NextQuote ==
    \/ EstimateFindPoolCall
    \/ EstimateReturn
    \/ DexChange
    \/ BuildFindPoolCall
    \/ BuildReturn
    \/ GetNumberOfPools
    \/ GetPools
    \/ FindPoolReturn

SpecQuote == Init /\ [][NextQuote]_vars

\* ------------------------------------------------------------------ claims

\* executeAgent has returned an ExecutionResult.
Returned == result.kind = "returned"
ReturnedFailure == Returned /\ ~result.success

\* The ids of the records written by executeAgent (every type but setup), in
\* insertion order.
RECURSIVE RunRecordsUpTo(_)
RunRecordsUpTo(n) ==
    IF n = 0 THEN << >>
    ELSE IF ledger[n].taskType # "setup"
         THEN Append(RunRecordsUpTo(n - 1), n)
         ELSE RunRecordsUpTo(n - 1)
RunRecords == RunRecordsUpTo(Len(ledger))

\* The executor was called and returned { success: false, error }.
SwapFailed == epc = "done" /\ ~swapResult.success

\* C1: executeAgent returns success = true only when every task record created
\* during the run is completed; a failed record (the execute_swap record when
\* the executor returns success = false) means the run is reported failed.
C1_SuccessOnlyIfAllCompleted ==
    (Returned /\ result.success) =>
        \A k \in DOMAIN result.taskIds : ledger[result.taskIds[k]].status = "completed"

\* A step of the failure handler takes a running record only to failed, with
\* the caught error's message and a completion time.
C2_HandlerStep ==
    \A id \in DOMAIN ledger :
        ( /\ pc \in {"catch", "catchUpdate"}
          /\ ledger[id].status = "running"
          /\ ledger'[id].status # "running" )
        => /\ ledger'[id].status = "failed"
           /\ ledger'[id].errorMessage = ErrMsg(caught)
           /\ ledger'[id].completedAt # Null

\* Once success = false is returned, no record of taskIds is running and every
\* failed one carries the message of the returned error.
C2_ClosedAtReturn ==
    ReturnedFailure =>
        /\ result.error = ErrMsg(caught)
        /\ \A k \in DOMAIN result.taskIds :
              LET t == ledger[result.taskIds[k]] IN
              /\ t.status # "running"
              /\ t.status = "failed" => t.errorMessage = result.error

\* C2: when an exception escapes a stage, every record of the run that is
\* running is set to failed with the caught error's message before executeAgent
\* returns; so whenever executeAgent returns success = false, no record listed
\* in the returned taskIds is still running.
C2_RunningRecordsForceClosed == [][C2_HandlerStep]_vars /\ []C2_ClosedAtReturn

\* C2 witness: the predictor threw, the handler closed its running record with
\* that error's message, and executeAgent returned success = false.
C2_Witness ==
    /\ ReturnedFailure
    /\ \E k \in DOMAIN result.taskIds :
          /\ ledger[result.taskIds[k]].status = "failed"
          /\ ledger[result.taskIds[k]].errorMessage = "Cannot read properties of undefined"

\* C3: executeAgent never propagates an exception, whichever collaborator
\* fails, the ledger calls of the failure handler included: it always settles
\* with a structured result.
C3_NeverThrows == pc # "thrown"

\* C4: an agent that is not found or not active at entry: executeAgent returns
\* success = false with an empty taskIds, creates no task record, and invokes
\* no balance read, planner, catalog, predictor or executor (no transaction).
C4_RejectedAtEntry ==
    agent \in {"null", "paused", "deleted"} =>
        /\ pc \in {"catch", "returned"}
        /\ taskIds = << >>
        /\ RunRecords = << >>
        /\ calls = << >>
        /\ txs = << >>
        /\ epc = "idle"
        /\ pc = "returned" => (ReturnedFailure /\ result.taskIds = << >>)

\* C4 witness: a paused agent was rejected and the run has returned.
C4_Witness == agent = "paused" /\ pc = "returned"

\* C5: records are created in the order plan_tasks, fetch_tokens,
\* predict_token, execute_swap, each only after its predecessor was completed,
\* none twice; taskIds is the list of the run's records in creation order, and
\* it is what executeAgent returns (all four on a full run, else a prefix).
C5_StageOrder ==
    /\ taskIds = RunRecords
    /\ Len(taskIds) <= 4
    /\ \A k \in DOMAIN taskIds :
          /\ ledger[taskIds[k]].taskType =
                << "plan_tasks", "fetch_tokens", "predict_token", "execute_swap" >>[k]
          /\ k > 1 => ledger[taskIds[k - 1]].status = "completed"
    /\ Returned => result.taskIds = RunRecords
    /\ (Returned /\ result.success) => Len(result.taskIds) = 4

\* C5 witness: a full run returned its four records, created after the setup
\* record.
C5_Witness == Returned /\ Len(result.taskIds) = 4 /\ setupTask = 1

\* C6 (as claimed): every record created by executeAgent goes pending ->
\* running and then receives exactly one terminal update, so when executeAgent
\* returns each record of the run is completed or failed.
C6_EveryRecordTerminated ==
    Returned =>
        \A k \in DOMAIN result.taskIds : ledger[result.taskIds[k]].status \in Terminal

\* A record of the run changes status only pending -> running -> terminal.
C6_RecordStep ==
    \A id \in DOMAIN ledger :
        ledger[id].taskType # "setup" =>
            \/ ledger'[id].status = ledger[id].status
            \/ ledger[id].status = "pending" /\ ledger'[id].status = "running"
            \/ ledger[id].status = "running" /\ ledger'[id].status \in Terminal

\* When executeAgent returns, each record is terminal or still pending, and
\* terminal if it returns success = true.
C6_AtReturn ==
    Returned =>
        \A k \in DOMAIN result.taskIds :
            /\ ledger[result.taskIds[k]].status \in Terminal \cup {"pending"}
            /\ result.success => ledger[result.taskIds[k]].status \in Terminal

\* C6 (amended): a record of the run changes status only pending -> running ->
\* completed or failed, so it receives at most one terminal update and a
\* terminal status is never changed again, the force-close included; when
\* executeAgent returns, each record is terminal, or still pending because its
\* update to running was rejected.
C6_AtMostOneTerminalUpdate == [][C6_RecordStep]_vars /\ []C6_AtReturn

\* C6 witness: the handler has closed the running execute_swap record of a run
\* whose earlier records are completed, and executeAgent returned.
C6_Witness ==
    /\ ReturnedFailure
    /\ Len(taskIds) = 4
    /\ ledger[taskIds[4]].status = "failed"
    /\ ledger[taskIds[3]].status = "completed"

\* C7 (as claimed): after any createTask and updateTask calls, with any
\* UpdateTaskData, completedAt is set iff the status is completed or failed.
C7_CompletedAtIffTerminal ==
    \A id \in DOMAIN ledger :
        ledger[id].completedAt # Null <=> ledger[id].status \in Terminal

\* C7 (amended): completedAt is set iff the status is completed or failed, for
\* every record whose latest update did not supply completedAt itself (and for
\* a record never updated).
C7_AutoCompletedAtIffTerminal ==
    \A id \in DOMAIN ledger :
        ledger[id].completedAt # "given" =>
            (ledger[id].completedAt # Null <=> ledger[id].status \in Terminal)

\* C7 witness: a record was updated with an error message and is now running
\* by an update that supplied no completedAt: it has no completedAt.
C7_Witness ==
    \E id \in DOMAIN ledger :
        /\ ledger[id].status = "running"
        /\ ledger[id].errorMessage = "message"
        /\ ledger[id].completedAt = Null

\* No record goes from pending directly to a terminal status.
C8_Step ==
    \A id \in DOMAIN ledger :
        ledger[id].status = "pending" => ledger'[id].status \in {"pending", "running"}

C8_AmendedStep ==
    \A id \in DOMAIN ledger' :
        /\ id \notin DOMAIN ledger => ledger'[id].status = "pending"
        /\ (id \in DOMAIN ledger /\ ledger[id].taskType # "setup"
                /\ ledger[id].status = "pending")
            => ledger'[id].status \in {"pending", "running"}

\* The setup record is pending or completed, completed only for a funded
\* account, and pending after the route answered for an unfunded one.
C8_SetupRecord ==
    setupTask # 0 =>
        /\ ledger[setupTask].taskType = "setup"
        /\ ledger[setupTask].status \in {"pending", "completed"}
        /\ ledger[setupTask].status = "completed" => fundedAmount = "200"
        /\ (cpc = "responded" /\ fundedAmount = "0") => ledger[setupTask].status = "pending"

C9_SwapRecordFailed ==
    (Returned /\ SwapFailed) =>
        /\ ledger[taskIds[4]].status = "failed"
        /\ ledger[taskIds[4]].errorMessage = swapResult.error
        /\ \A k \in 1..3 : ledger[taskIds[k]].status = "completed"

\* C9 (amended): whenever the executor returns success = false, the three
\* earlier records stay completed and the execute_swap record is never
\* completed; it becomes failed with the executor's error when the ledger
\* accepts that update (executeAgent then returns success = true); when the
\* ledger rejects it and executeAgent returns success = false, the handler has
\* closed the record with the ledger error's message instead.
C9_SwapRecordFailedIfLedgerAccepts ==
    SwapFailed =>
        /\ Len(taskIds) = 4
        /\ \A k \in 1..3 : ledger[taskIds[k]].status = "completed"
        /\ ledger[taskIds[4]].status \in {"running", "failed"}
        /\ (Returned /\ result.success) =>
              /\ ledger[taskIds[4]].status = "failed"
              /\ ledger[taskIds[4]].errorMessage = swapResult.error
        /\ ReturnedFailure =>
              /\ ledger[taskIds[4]].status = "failed"
              /\ ledger[taskIds[4]].errorMessage = ErrMsg(caught)
              /\ ErrMsg(caught) \in { ErrMsg(e) : e \in Fail("ledger") }

\* C9 witness: the finality poll was exhausted and the execute_swap record is
\* failed with the executor's error.
C9_Witness ==
    /\ Returned
    /\ SwapFailed
    /\ swapResult.error = "did not finalize in time"
    /\ ledger[taskIds[4]].status = "failed"
    /\ ledger[taskIds[4]].errorMessage = "did not finalize in time"

\* C10: the swap call is submitted only after a status poll of the storage
\* registration reported success; that transaction is polled at most 30 times;
\* when none of 30 polls reports success the executor returns success = false
\* with "did not finalize in time" and never submits the swap call; the swap
\* call itself is not polled.
C10_SwapAfterFinality ==
    /\ \A k \in DOMAIN txs :
          txs[k] = "ft_transfer_call" => "storage_deposit" \in finalized
    /\ polls["storage_deposit"] <= 30
    /\ polls["ft_transfer_call"] = 0
    /\ (polls["storage_deposit"] = 30 /\ "storage_deposit" \notin finalized) =>
          /\ \A k \in DOMAIN txs : txs[k] # "ft_transfer_call"
          /\ epc \in {"poll", "done"}
          /\ epc = "done" =>
                /\ ~swapResult.success
                /\ swapResult.error = "did not finalize in time"

\* C10 witness: thirty polls without success, and the executor has returned.
C10_Witness ==
    /\ epc = "done"
    /\ polls["storage_deposit"] = 30
    /\ "storage_deposit" \notin finalized

\* seq is an initial segment of full.
IsPrefix(seq, full) ==
    /\ Len(seq) <= Len(full)
    /\ \A k \in DOMAIN seq : seq[k] = full[k]

\* The three transactions of a swap, in submission order.
SwapSequence == << "near_deposit", "storage_deposit", "ft_transfer_call" >>

\* A step of executeTokenSwap that ends in its catch block, and a step after
\* the executor has returned, hand no transaction to the chain unless it is
\* the very signAndSendTransaction call that was rejected.
C11_NothingAfterFailure ==
    /\ epc = "done" => submitted' = submitted
    /\ (epc # "done" /\ epc' = "done" /\ ~swapResult'.success) =>
          /\ txs' = txs
          /\ \/ submitted' = submitted
             \/ /\ epc \in {"wrap", "send"}
                /\ Len(submitted') = Len(submitted) + 1

\* What holds of the transactions of one executeTokenSwap call in every state.
C11_Prefix ==
    /\ IsPrefix(submitted, SwapSequence)
    /\ IsPrefix(txs, submitted)
    /\ Len(submitted) <= Len(txs) + 1
    /\ (Len(submitted) = Len(txs) + 1) => (epc = "done" /\ ~swapResult.success)
    /\ (epc = "done" /\ ~swapResult.success) =>
          /\ swapResult.error = ErrMsg(ecaught)
          /\ ecaught # NoError
    /\ (epc = "done" /\ swapResult.success) => submitted = SwapSequence

\* C11: within one executeTokenSwap call the transactions submitted are a
\* prefix of [near_deposit, storage_deposit, ft_transfer_call], each at most
\* once and in that order (no unwrap is ever among them); when a step fails
\* nothing further is submitted and the call returns success = false with the
\* message of the error that was thrown, instead of raising.
C11_SubmittedPrefix == [][C11_NothingAfterFailure]_vars /\ []C11_Prefix

\* The wrap went through, the storage deposit was rejected, the executor
\* returned the failure, and executeAgent has returned since.
C11_Witness ==
    /\ epc = "done"
    /\ ~swapResult.success
    /\ txs = << "near_deposit" >>
    /\ submitted = << "near_deposit", "storage_deposit" >>
    /\ Returned

\* C12: the swap input amount (amount_in of the get_return query, amount_in of
\* the swap message, amount of ft_transfer_call) is the wNEAR balance read back
\* after the wrap, not the amount that was asked to be wrapped.
C12_SwapsBalanceReadBack ==
    /\ epc \in {"estimate", "generate", "send", "poll"} => wNearBalance \in Balances
    /\ getReturn.amount_in # NoAmount => getReturn.amount_in = wNearBalance
    /\ swapArgs # NoArgs =>
          /\ swapArgs.amount_in = wNearBalance
          /\ swapArgs.amount = wNearBalance
          /\ wNearBalance \in Balances

\* The swap was submitted with a balance that differs from the wrap amount.
C12_Witness ==
    /\ "ft_transfer_call" \in { txs[k] : k \in DOMAIN txs }
    /\ wNearBalance # wrapAmount
    /\ swapArgs.amount = wNearBalance

\* floor(n * 99 / 100) without the division operator: the largest q with
\* 100 * q <= 99 * n.
IsFloor99(q, n) == 100 * q <= 99 * n /\ 99 * n < 100 * (q + 1)

\* C13: for every expected output E of the quote, estimateSwap returns
\* minimumOutput = floor(E * 99 / 100), and that value is the min_amount_out
\* of the swap message executeTokenSwap submits.
C13_MinimumOutput ==
    /\ estimate # NoEstimate =>
          /\ ~estimate.minimumOutput.sci
          /\ IsFloor99(estimate.minimumOutput.m, estimate.expectedOutput.m)
    /\ swapArgs # NoArgs =>
          /\ swapArgs.min_amount_out = estimate.minimumOutput
          /\ IsFloor99(swapArgs.min_amount_out.m, estimate.expectedOutput.m)

\* The swap was submitted for a quote that 99/100 does not divide evenly.
C13_Witness ==
    /\ "ft_transfer_call" \in { txs[k] : k \in DOMAIN txs }
    /\ estimate.expectedOutput = Plain(101)
    /\ swapArgs.min_amount_out = Plain(99)

\* The lowest index below limit of a pool of the list holding both tokens,
\* -1 when there is none.
LowestMatch(list, limit) ==
    LET hits == { k \in DOMAIN list.special :
                    /\ k < limit
                    /\ k < list.count
                    /\ tokenIn \in { list.special[k][n] : n \in DOMAIN list.special[k] }
                    /\ tokenOut \in { list.special[k][n] : n \in DOMAIN list.special[k] } }
    IN  IF hits = {} THEN 0 - 1 ELSE CHOOSE k \in hits : \A h \in hits : k <= h

\* C14: findPool scans the pool list in pages of 100 from index 0, covers at
\* most the first min(numPools, 500) pools (200 for hasLiquidityPool), and
\* returns the lowest index of a pool holding both tokens in either role;
\* not-found when no scanned pool matches and when an RPC call is rejected
\* before a match.
C14_FindPool ==
    /\ \A n \in DOMAIN requests : requests[n] = (n - 1) * 100
    /\ \A k \in examined :
          /\ k < chain.count
          /\ k < (IF scan = "findPool" THEN 500 ELSE 200)
    /\ fpc = "done" =>
          LET limit == IF scan = "findPool" THEN 500 ELSE 200
              lowest == LowestMatch(chain, limit)
          IN  /\ rpcFailed =>
                    /\ poolId.value = (IF scan = "findPool" THEN "null" ELSE "false")
                    /\ lowest >= 0 => lowest \notin examined
              /\ (~rpcFailed /\ scan = "findPool") =>
                    /\ poolId.id = lowest
                    /\ poolId.value = (IF lowest >= 0 THEN "number" ELSE "null")
              /\ (~rpcFailed /\ scan = "hasLiquidityPool") =>
                    poolId.value = (IF lowest >= 0 THEN "true" ELSE "false")

\* findPool went past a pool holding only one of the tokens and returned a
\* three-token pool of the third page that lists the pair in reverse order.
C14_Witness ==
    /\ fpc = "done"
    /\ scan = "findPool"
    /\ ~rpcFailed
    /\ poolId = [value |-> "number", id |-> 200]
    /\ 0 \in DOMAIN chain.special
    /\ chain.special[200] = << "dai.fakes.testnet", tokenOut, tokenIn >>
    /\ Len(requests) = 3

\* fetchAvailableTokens has returned.
CatalogReturned == catPc = "done"

\* C15: on every path (indexer with liquidity filter, static fallback data
\* set, built-in list) fetchAvailableTokens returns at most 15 entries, in
\* descending order of price, each with a price that parses to a positive
\* number.
C15_CatalogShape ==
    CatalogReturned =>
        /\ Len(catalog) <= 15
        /\ \A k \in DOMAIN catalog :
              /\ catalog[k].price.kind = "number"
              /\ catalog[k].price.value > 0
        /\ \A k \in DOMAIN catalog : \A n \in DOMAIN catalog :
              k < n => catalog[k].price.value >= catalog[n].price.value

\* The indexer path stopped at 15 tokens with more candidates left, and the
\* prices of the catalog are not all the same.
C15_Witness ==
    /\ CatalogReturned
    /\ path = "indexer"
    /\ Len(catalog) = 15
    /\ cand <= Len(allTokens)
    /\ catalog[1].price.value > catalog[15].price.value

\* C16: fetchAvailableTokens never raises: when the indexer call fails or no
\* candidate passes the liquidity filter it returns the static fallback data
\* set, and when that cannot be loaded it returns the built-in list.
C16_NeverRaises ==
    /\ catPc # "raised"
    /\ CatalogReturned =>
          /\ path \in {"indexer", "fallback", "builtin"}
          /\ (indexerFailed \/ tokensWithLiquidity = << >>) <=> path # "indexer"
          /\ path = "indexer" => catalog = tokensWithLiquidity
          /\ path = "builtin" =>
                /\ Len(catalog) = 3
                /\ catalog[1].token_account_id = "wbtc.fakes.testnet"
                /\ catalog[2].token_account_id = "usdt.fakes.testnet"
                /\ catalog[3].token_account_id = "dai.fakes.testnet"

\* The indexer answered, no candidate had a pool, the fallback data set could
\* not be loaded, and the built-in list was returned.
C16_Witness ==
    /\ CatalogReturned
    /\ ~indexerFailed
    /\ Len(allTokens) > 0
    /\ tokensWithLiquidity = << >>
    /\ path = "builtin"

PlanReturned == planPc = "done"

\* C18: planAgentTasks always returns a non-empty list sorted ascending by
\* order; when the model call fails, its output cannot be parsed or no entry
\* survives validation, the list is the fixed 5-step default plan
\* (fetch_tokens, analyze_market, predict_token, prepare_swap, execute_swap,
\* orders 1 to 5).
C18_NonEmptySortedPlan ==
    PlanReturned =>
        /\ Len(plan) > 0
        /\ \A k \in DOMAIN plan : \A n \in DOMAIN plan :
              k < n => plan[k].order <= plan[n].order
        /\ planFailed =>
              /\ [k \in DOMAIN plan |-> plan[k].type] =
                    << "fetch_tokens", "analyze_market", "predict_token",
                       "prepare_swap", "execute_swap" >>
              /\ [k \in DOMAIN plan |-> plan[k].order] = << 1, 2, 3, 4, 5 >>

\* predictBestToken has returned.
Predicted == predPc = "done"

\* C19: whenever predictBestToken returns, selectedToken is the contract id of
\* an entry of the catalog it was given and symbol and price are that entry's,
\* for model picks (also when the model answered a symbol) and for fallback
\* picks; an identifier of the model matching no entry by contract id or
\* symbol is never returned and is handled as a failed model call.
C19_SelectedFromCatalog ==
    Predicted =>
        /\ \E k \in DOMAIN tokens :
              /\ prediction.selectedToken = tokens[k].token_account_id
              /\ prediction.symbol = tokens[k].symbol
              /\ prediction.price = tokens[k].price
        /\ prediction.confidence = "model" =>
              \E k \in DOMAIN tokens :
                 /\ answer.selectedToken \in {tokens[k].token_account_id, tokens[k].symbol}
                 /\ prediction.selectedToken = tokens[k].token_account_id
        /\ (\A k \in DOMAIN tokens :
                answer.selectedToken \notin {tokens[k].token_account_id, tokens[k].symbol})
              => prediction.confidence = "0.5"

\* The model answered with a symbol and the contract id of the entry came back.
C19_Witness ==
    /\ Predicted
    /\ answer.selectedToken = "WBTC"
    /\ prediction.confidence = "model"
    /\ prediction.selectedToken = "wbtc.fakes.testnet"
    /\ Len(tokens) = 2

\* C20: predictBestToken never raises: on any failure of the model path it
\* returns a prediction chosen by the keyword fallback, for every catalog
\* fetchAvailableTokens can return, the empty one included.
C20_PredictNeverRaises == predPc # "raised"

\* ------------------------------------------------------- claims C21 to C30

\* A step that changes the agent's row changes nothing of the run, and the
\* status the run read at entry is never read again.
C21_NoCancellationPoint ==
    /\ agentRow' # agentRow => UNCHANGED << runVars, execVars >>
    /\ agent # "unset" => agent' = agent

\* A run that passed the entry check ends only by a failing stage or by
\* returning after its fourth stage, with the executor called and returned.
C21_RunsToTheEnd ==
    /\ stage >= 1 =>
          /\ agent = "active"
          /\ ErrMsg(caught) \notin {"Agent not found", "Agent is not active"}
    /\ (result.kind = "returned" /\ result.success) =>
          /\ Len(taskIds) = 4
          /\ epc = "done"
          /\ swapResult.success => submitted = SwapSequence

\* C21: pausing or deleting an agent after the entry check does not stop the
\* run: the status is read only at entry, there is no cancellation point
\* between stages, and a started run goes through all remaining stages, the
\* wrap and swap submissions included, unless a stage fails.
C21_PauseDoesNotStopRun == [][C21_NoCancellationPoint]_vars /\ []C21_RunsToTheEnd

\* The run read the agent as active, the owner has paused or deleted it
\* since, and the run has submitted wrap and swap and returned success.
C21_Witness ==
    /\ agent = "active"
    /\ agentRow \in {"paused", "deleted"}
    /\ submitted = SwapSequence
    /\ swapResult.success
    /\ result.kind = "returned"
    /\ result.success

\* The patterns, by position, whose captured number is above 0 and at most
\* the balance of the account.
FittingPatterns ==
    {k \in DOMAIN amountPatterns :
        LET match == Match(description, amountPatterns[k])
        IN  match.matched /\ match.group1 > 0 /\ match.group1 <= accountAmount}

\* C25: the amount passed to the executor is the captured number of the
\* first pattern, in the order 'maximum X near', 'max X near', 'swap X near',
\* 'X near token', 'X near', whose value is above 0 and at most the balance
\* read at entry; a pattern whose value exceeds the balance is skipped and
\* the later patterns are still tried; if none fits the amount is 0.5.
C25_FirstFittingPattern ==
    amtPc = "swap" =>
        IF FittingPatterns = {}
        THEN amountInNear = DefaultAmount
        ELSE \E k \in FittingPatterns :
                /\ \A other \in FittingPatterns : k <= other
                /\ amountInNear = Match(description, amountPatterns[k]).group1

\* C27: the amount executeAgent passes to the executor never exceeds the
\* balance read at entry of the same run, whatever the description says.
C27_AmountWithinBalance ==
    amtPc = "swap" => amountInNear <= accountAmount

\* What the entry step of invocation p does is decided by the agent's row
\* alone (or by a failing read of it), and a step of one invocation leaves
\* the other invocation's position and locals as they are.
C22_EntryIgnoresOtherRuns ==
    \A p \in Runs :
        /\ (run[p].pc = "idle" /\ run'[p].pc # "idle") =>
              \/ /\ run'[p].error = EntryError(FoundAgent)
                 /\ run'[p].pc = IF EntryError(FoundAgent) = Null
                                 THEN "fetchAccountBalance" ELSE "returned"
              \/ /\ run'[p].error \in {ErrMsg(e) : e \in Fail("agentService")}
                 /\ run'[p].pc = "returned"
        /\ run'[p] # run[p] => \A q \in Runs \ {p} : run'[q] = run[q]

\* An invocation past its wrap step has submitted a near_deposit of its own.
C22_OwnWrap ==
    \A p \in Runs :
        /\ run[p].pc \in {"readBalance", "swap"} => \E k \in DOMAIN deposits : deposits[k] = p
        /\ Cardinality({k \in DOMAIN deposits : deposits[k] = p}) <= 1

\* C22: nothing serializes runs of the same agent: the entry check of one
\* invocation does not look at other invocations, so two overlapping
\* invocations can both pass it, read the same balance and be in the swap
\* stage at the same time, each having submitted its own wrap transaction.
C22_RunsNotSerialized == [][C22_EntryIgnoresOtherRuns]_vars /\ []C22_OwnWrap

\* Both invocations passed the entry check, read the same balance, and are
\* inside executeTokenSwap after each submitted its near_deposit.
C22_Witness ==
    /\ \A p \in Runs : run[p].pc \in {"readBalance", "swap"}
    /\ run[1].balance = run[2].balance
    /\ run[1].balance = formatNearAmount(2000)
    /\ Len(deposits) = 2
    /\ wnear = run[1].amount + run[2].amount

\* C28: across any sequence of runs of one agent, runs whose swap failed
\* after a successful wrap included, the input amount of the swap a run
\* submits never exceeds the amount that run was asked to swap, which is the
\* amount it wrapped and reports as amountSwapped.
C28_SwapsAtMostAmountAsked ==
    \A p \in Runs : run[p].amount_in >= 0 => run[p].amount_in <= run[p].amount

\* The faucet's answer to the k-th request was a success / a rate limit: the
\* request succeeded, or HTTP 429 or a message holding 'Rate limit' came back.
FaucetSucceeded(k) == faucetCalls[k].response.ok
FaucetRateLimited(k) ==
    LET r == faucetCalls[k].response
    IN  /\ ~r.rejected
        /\ ~r.ok
        /\ \/ r.status = 429
           \/ \E j \in 1..(Len(r.text) - 1) : r.text[j] = "Rate" /\ r.text[j + 1] = "limit"

\* createNearAccount returns in every behaviour in which each step that can
\* be taken is taken.
FaucetTerminates == <>(provPc = "returned")

\* C23: createNearAccount always terminates and returns the generated
\* account id and key pair without raising: it calls the faucet at most 5
\* times, always with the same account id and public key; it returns
\* fundedAmount '200' at the first successful call, '0' at the first
\* rate-limit response (HTTP 429 or a 'Rate limit' message) without a further
\* call, and '0' after 5 failures that were not rate limits.
C23_ReturnsAtFirstSignal ==
    /\ Len(faucetCalls) <= 5
    /\ \A k \in DOMAIN faucetCalls :
          /\ faucetCalls[k].newAccountId = accountId
          /\ faucetCalls[k].newAccountPublicKey = keyPair.publicKey
          /\ (FaucetSucceeded(k) \/ FaucetRateLimited(k)) => k = Len(faucetCalls)
    /\ provPc # "returned" => nearAccount.fundedAmount = "unset"
    /\ provPc = "returned" =>
          /\ nearAccount.accountId = accountId
          /\ nearAccount.privateKey = keyPair.privateKey
          /\ nearAccount.publicKey = keyPair.publicKey
          /\ accountId \in AccountIds
          /\ keyPair \in KeyPairs
          /\ faucetCalls # << >>
          /\ LET last == Len(faucetCalls)
             IN  IF FaucetSucceeded(last) THEN nearAccount.fundedAmount = "200"
                 ELSE IF FaucetRateLimited(last) THEN nearAccount.fundedAmount = "0"
                 ELSE nearAccount.fundedAmount = "0" /\ last = 5

\* The strings a task record holds: the values of its input and output and
\* its error message.
RecordValues(row) ==
    {p[2] : p \in row.taskInput \cup row.taskOutput} \cup {row.errorMessage}

WithSymbol(words) ==
    { k \in DOMAIN tokens : \E w \in words : SymbolIncludes(tokens[k].symbol, w) }

\* The keyword rule that applies to the goal: the first of stable, btc, eth
\* the goal contains, and the symbols that rule looks for.
RuleWords ==
    IF "stable" \in agentGoal THEN {"usdt", "usdc", "dai", "usn", "busd"}
    ELSE IF "btc" \in agentGoal THEN {"btc"}
    ELSE IF "eth" \in agentGoal THEN {"eth"}
    ELSE {}

\* C26: the predictor fallback follows a strict priority: a goal containing
\* 'stable' gets the first entry whose symbol contains usdt, usdc, dai, usn
\* or busd when there is one; else a goal containing btc/bitcoin gets the
\* first entry with 'btc' in its symbol; else a goal containing eth/ethereum
\* the first with 'eth'; in every other case, a matched keyword without a
\* matching symbol included, the catalog's first entry is chosen.  Every
\* fallback result has confidence 0.5.
C26_FallbackPriority ==
    (Predicted /\ ModelPathThrows(tokens, answer)) =>
        /\ prediction.confidence = "0.5"
        /\ \E k \in DOMAIN tokens :
              /\ prediction.selectedToken = tokens[k].token_account_id
              /\ prediction.symbol = tokens[k].symbol
              /\ prediction.price = tokens[k].price
              /\ IF WithSymbol(RuleWords) = {}
                 THEN k = 1
                 ELSE k \in WithSymbol(RuleWords) /\ \A n \in WithSymbol(RuleWords) : k <= n

\* The goal asks for a stable token and mentions bitcoin, the catalog holds
\* no stablecoin but a BTC token in second place: the first entry is chosen.
C26_Witness ==
    /\ Predicted
    /\ ModelPathThrows(tokens, answer)
    /\ agentGoal = {"stable", "btc"}
    /\ Len(tokens) = 2
    /\ tokens[1].symbol = "REF"
    /\ tokens[2].symbol = "WBTC"
    /\ prediction.selectedToken = "ref.fakes.testnet"
    /\ prediction.confidence = "0.5"

\* C29: within one executeTokenSwap call the pool_id in the swap payload is
\* the pool the expected and minimum output were quoted for, even if the
\* pool list of the DEX changes, or a scan fails, between the estimate and
\* the build, which each run their own scan.
C29_PayloadPoolIsQuotedPool ==
    payloadPool # 0 - 1 => payloadPool = quotedPool

\* C30: every token that passes hasLiquidityPool is a token for which the
\* swap path's findPool(wNEAR, token) finds a pool when the DEX does not
\* change in between: both read the same pool registry, and the first 200
\* pools the pre-filter scans are among the first 500 the swap lookup scans.
C30_ListedTokenHasSwapPool ==
    (dexPc = "looked" /\ ~lookups[2].rpcFailed) =>
        /\ lookups[2].contract = lookups[1].contract
        /\ lookups[2].poolId.value = "number"

====
